---- MODULE Spec2Model ----
(***************************************************************************)
(* Model of the SOLGuard intelligence engine of                            *)
(* netlify/functions/chaos-engineering.js: the per-module circuit breaker  *)
(* (SignalEngine.executeWithCircuitBreaker), the cache with request        *)
(* coalescing and rate limiting (StateManager, RateLimiter) and the phase  *)
(* orchestrator (SOLGuardIntelligenceEngine.analyzeProgressive), and the   *)
(* signal aggregation of SignalEngine.processSignals.                      *)
(*                                                                         *)
(* JavaScript runs one handler at a time; an async function runs           *)
(* atomically up to its next await.  Every action below is one such        *)
(* synchronous stretch of code.                                            *)
(***************************************************************************)
EXTENDS Integers, Sequences, FiniteSets, TLC

VARIABLES
  \* ---- circuit breaker of one module (SignalEngine.circuitBreakers) ----
  breaker,   \* the breaker record of the module
  now,       \* Date.now(), in milliseconds
  call,      \* the executeWithCircuitBreaker calls awaiting their operation
  opCalls,   \* how many times the wrapped operation has been invoked
  rejected,  \* how many calls were rejected with "Circuit breaker OPEN"
  streak,    \* failed operations since the last successful one
  okCount,   \* successful operations so far
  ev,        \* the last step a call made, with the breaker record before it
  \* ---- StateManager and its RateLimiter ----
  memoryCache,        \* key -> stored value (NoValue: no entry)
  ttlMap,             \* key -> expiry time in ms (NULL: no entry)
  hits,
  misses,
  requestCoalescing,  \* key -> the promise of the computation in flight (0: none)
  requestCounts,      \* second -> operations started in that second
  backoffDelay,       \* backoffDelays.get('global'), in 1/BackoffScale ms (NULL: unset)
  promise,            \* the promises returned by executeWithRateLimit (calls: computeFn invocations)
  getter,             \* the StateManager.get calls in progress
  lastFailed,         \* key -> the last finished computation of the key threw
  cev,                \* the last step of a get call, with what it found
  \* ---- SOLGuardIntelligenceEngine: one engine, analysing one address ----
  circuitBreakers,    \* signalEngine.circuitBreakers: module -> breaker record
  stateManager,       \* the engine's StateManager and its RateLimiter
  invocation,         \* module -> its executeModuleSafely call of the current run
  run,                \* the analyzeProgressive call
  \* ---- SignalEngine.processSignals and the functions it calls ----
  signalInput,        \* the list of module results handed to processSignals
  signalOut,          \* what the SignalEngine functions return on it
  correlationInput,   \* the list of correlations handed to assessManipulationRisk
  riskOut,            \* what assessManipulationRisk returns on it
  \* ---- executeAnalysis of SecurityIntelligence / LiquidityIntelligence ----
  collected,          \* the module and what its three collectors came to
  analysisOut,        \* what executeAnalysis and calculateModuleScore return
  \* ---- a RateLimiter and the RateLimiter.execute calls on it ----
  limiter,            \* its maps, its calls, and what happened on it so far
  \* ---- createSignal, called by a module ----
  created,            \* the confidences supplied and the signals returned
  \* ---- EventDrivenAnalysisOrchestrator, one job ----
  job                 \* the job record in the table, and the handlers of its events

cbVars == <<breaker, call, opCalls, rejected, streak, okCount, ev>>

cacheVars == <<memoryCache, ttlMap, hits, misses, requestCoalescing, requestCounts,
               backoffDelay, promise, getter, lastFailed, cev>>

engVars == <<circuitBreakers, stateManager, invocation, run>>

fnVars == <<correlationInput, riskOut, collected, analysisOut, limiter, created, job>>

sigVars == <<signalInput, signalOut, fnVars>>

vars == <<cbVars, cacheVars, engVars, sigVars, now>>

\* ------------------------------------------------------------------ bounds
\* Calls that may be awaiting their operation at the same time.
MaxConc == 3
\* Calls made on the breaker in one behaviour.
MaxCalls == 10
\* Clock steps in one behaviour, each of TickMs milliseconds.
MaxTicks == 4
TickMs == 30000
\* StateManager.get calls in progress at the same time.
MaxGetters == 3
\* Computations (promises of executeWithRateLimit) alive at the same time.
MaxPromises == 2
\* StateManager.get calls in one behaviour.
MaxGets == 3
\* Seconds the clock advances in one behaviour of the cache.
MaxCacheTicks == 3
\* computeFn returns one of the values 1..MaxValue.
MaxValue == 2
\* analyzeProgressive calls on the engine in one behaviour.
MaxRuns == 7
\* Idle periods of the engine in one behaviour, each of IdleMs milliseconds.
MaxIdles == 3
\* Signals in the module results handed to processSignals.
MaxSignals == 4
\* Signals in the module results whose order is varied.
MaxOrderSignals == 4
\* Correlations in the list handed to assessManipulationRisk.
MaxCorrelations == 6
\* RateLimiter.execute calls that are followed to their end.
MaxLimiterCalls == 2
\* Times the other users of the limiter fill a second up to its ceiling.
MaxFills == 5
\* createSignal calls of which the signals are kept.
MaxCreated == 2
IdleMs == 30000

\* ------------------------------------------------- program constants
failureThreshold == 5
recoveryTimeout == 60000
halfOpenSuccessThreshold == 3

\* lastFailureTime: null until the first failure.
NULL == -1
\* JavaScript's ToNumber on the operand of Date.now() - lastFailureTime.
ToNumber(t) == IF t = NULL THEN 0 ELSE t

Calls == 1..MaxConc

\* --------------------------------------------------------- circuit breaker
initializeCircuitBreaker ==
  [state |-> "CLOSED", failureCount |-> 0, lastFailureTime |-> NULL, successCount |-> 0]

RecoveryElapsedAtLeast(b, t) == t - ToNumber(b.lastFailureTime) >= recoveryTimeout
\* if (Date.now() - breaker.lastFailureTime > breaker.recoveryTimeout)
RecoveryElapsed(b, t) == t - ToNumber(b.lastFailureTime) > recoveryTimeout

\* A rejection that counts as a failure time.
GateRecordingRejection(b, t) ==
  IF b.state = "OPEN"
  THEN IF RecoveryElapsed(b, t)
       THEN [pass |-> TRUE, b |-> [b EXCEPT !.state = "HALF_OPEN", !.successCount = 0]]
       ELSE [pass |-> FALSE, b |-> [b EXCEPT !.lastFailureTime = t]]
  ELSE [pass |-> TRUE, b |-> b]
\* The check of the breaker state that opens executeWithCircuitBreaker:
\* whether the call goes on to the operation, and the record it leaves.
BreakerGate(b, t) ==
  IF b.state = "OPEN"
  THEN IF RecoveryElapsed(b, t)
       THEN [pass |-> TRUE, b |-> [b EXCEPT !.state = "HALF_OPEN", !.successCount = 0]]
       ELSE [pass |-> FALSE, b |-> b]
  ELSE [pass |-> TRUE, b |-> b]

DecayedBelowZero(n) == n - 1
\* Math.max(0, breaker.failureCount - 1)
Decayed(n) == IF n - 1 > 0 THEN n - 1 ELSE 0

HalfOpenClosesAbove(b) ==
  IF b.state = "HALF_OPEN"
  THEN LET n == b.successCount + 1 IN
       IF n > halfOpenSuccessThreshold
       THEN [b EXCEPT !.successCount = n, !.state = "CLOSED", !.failureCount = 0]
       ELSE [b EXCEPT !.successCount = n]
  ELSE [b EXCEPT !.failureCount = Decayed(b.failureCount)]
\* Success handling, after the operation returned.
BreakerOnSuccess(b) ==
  IF b.state = "HALF_OPEN"
  THEN LET n == b.successCount + 1 IN
       IF n >= halfOpenSuccessThreshold
       THEN [b EXCEPT !.successCount = n, !.state = "CLOSED", !.failureCount = 0]
       ELSE [b EXCEPT !.successCount = n]
  ELSE [b EXCEPT !.failureCount = Decayed(b.failureCount)]

OpensAboveThreshold(b, t) ==
  LET n == b.failureCount + 1 IN
  [b EXCEPT !.failureCount = n, !.lastFailureTime = t,
            !.state = IF n > failureThreshold THEN "OPEN" ELSE b.state]
\* Failure handling, after the operation threw.
BreakerOnFailure(b, t) ==
  LET n == b.failureCount + 1 IN
  [b EXCEPT !.failureCount = n, !.lastFailureTime = t,
            !.state = IF n >= failureThreshold THEN "OPEN" ELSE b.state]

NoEvent == [kind |-> "none", pre |-> initializeCircuitBreaker, at |-> 0,
            admittedIn |-> "CLOSED", invoked |-> FALSE]

Idle == [pc |-> "idle", admittedIn |-> "CLOSED"]

BreakerInit ==
  /\ breaker = initializeCircuitBreaker
  /\ call = [c \in Calls |-> Idle]
  /\ opCalls = 0
  /\ rejected = 0
  /\ streak = 0
  /\ okCount = 0
  /\ ev = NoEvent

\* ------------------------------------------------ StateManager, RateLimiter
Keys == {"k1"}
\* The ttl (seconds) each key is requested with: a module asks with its defaultTtl.
TtlOf(k) == IF k = "k1" THEN 2 ELSE 1
\* The values computeFn may return.
Values == 1..MaxValue
NoValue == 0
Getters == 1..MaxGetters
Promises == 1..MaxPromises

maxRequestsPerSecond == 10
\* Math.floor(now / 1000), and ttl * 1000: milliseconds in a second.
MsPerSecond == 1000
baseBackoff == 1000
maxBackoffDelay == 30000
\* keeps currentBackoff * 1.5 an integer: delays are held in 1/BackoffScale ms.
BackoffScale == 64

\* The limiter is shared by every key: the operations that calls for keys
\* outside Keys started in the current second, when the behaviour begins.
OtherRequests == {0, maxRequestsPerSecond - 1}

Min(a, b) == IF a < b THEN a ELSE b
\* Seeded at half the base delay.
BackoffFromHalfBase(d) == IF d = NULL \/ d = 0 THEN (baseBackoff * BackoffScale) \div 2 ELSE d
\* this.backoffDelays.get(backoffKey) || 1000
CurrentBackoff(d) == IF d = NULL \/ d = 0 THEN baseBackoff * BackoffScale ELSE d

LiveAtExpiry(expiry, t) == expiry # NULL /\ expiry # 0 /\ t <= expiry
\* if (ttlKey && Date.now() < ttlKey)
IsLive(expiry, t) == expiry # NULL /\ expiry # 0 /\ t < expiry

NeverCoalesces(rc, k) == FALSE
\* if (this.requestCoalescing.has(normalizedKey))
Coalesces(rc, k) == rc[k] # 0

KeepsMarker(rc, k) == rc
\* finally { this.requestCoalescing.delete(normalizedKey); }
DeleteMarker(rc, k) == [rc EXCEPT ![k] = 0]

WaiterDeletesMarker(rc, k) == [rc EXCEPT ![k] = 0]
\* return await this.requestCoalescing.get(normalizedKey): the map is not touched.
MarkerAfterWaiter(rc, k) == rc

\* A Map is a function whose domain is the set of keys it holds.
EmptyMap == [x \in {} |-> 0]
MapSet(map, k, v) == [x \in DOMAIN map \cup {k} |-> IF x = k THEN v ELSE map[x]]
MapDelete(map, k) == [x \in DOMAIN map \ {k} |-> map[x]]
\* this.requestCounts.get(currentSecond) || 0
CountOf(counts, second) == IF second \in DOMAIN counts THEN counts[second] ELSE 0

\* cleanupOldCounts: drops the counts of seconds more than 5 s before currentSecond.
cleanupOldCounts(counts, currentSecond) ==
  [s \in {x \in DOMAIN counts : ~(currentSecond - x > 5)} |-> counts[s]]

\* Started without asking whether the second is full.
StartsAtCeiling(counts, delay, t) ==
  LET currentSecond == t \div MsPerSecond
      currentCount == CountOf(counts, currentSecond)
  IN IF currentCount > maxRequestsPerSecond
     THEN [pass |-> FALSE, counts |-> counts,
           delay |-> Min(CurrentBackoff(delay) * 2, maxBackoffDelay * BackoffScale),
           wake |-> t * BackoffScale + CurrentBackoff(delay)]
     ELSE [pass |-> TRUE,
           counts |-> cleanupOldCounts(MapSet(counts, currentSecond, currentCount + 1),
                                       currentSecond),
           delay |-> delay, wake |-> 0]
\* RateLimiter.execute up to its first await: either the operation is started
\* (pass) or the call waits currentBackoff before it tries again.
RateLimit(counts, delay, t) ==
  LET currentSecond == t \div MsPerSecond
      currentCount == CountOf(counts, currentSecond)
  IN IF currentCount >= maxRequestsPerSecond
     THEN [pass |-> FALSE, counts |-> counts,
           delay |-> Min(CurrentBackoff(delay) * 2, maxBackoffDelay * BackoffScale),
           wake |-> t * BackoffScale + CurrentBackoff(delay)]
     ELSE [pass |-> TRUE,
           counts |-> cleanupOldCounts(MapSet(counts, currentSecond, currentCount + 1),
                                       currentSecond),
           delay |-> delay, wake |-> 0]

\* catch: backoffDelays.set('global', Math.min(currentBackoff * 1.5, maxBackoffDelay))
BackoffAfterError(delay) ==
  Min((CurrentBackoff(delay) * 3) \div 2, maxBackoffDelay * BackoffScale)

FreePromise == [st |-> "free", key |-> "k1", val |-> NoValue, wake |-> 0, calls |-> 0]
IdleGetter == [pc |-> "idle", key |-> "k1", p |-> 0, val |-> NoValue]
NoCacheEvent == [kind |-> "none", key |-> "k1", result |-> NoValue]

\* A settled promise nothing refers to any more is dropped.
Referenced(p, g, rc) ==
  \/ \E c \in Getters : g[c].pc \in {"owner", "waiter"} /\ g[c].p = p
  \/ \E k \in Keys : rc[k] = p
Collect(pr, g, rc) ==
  [p \in Promises |-> IF pr[p].st \in {"ok", "err"} /\ ~Referenced(p, g, rc)
                      THEN FreePromise ELSE pr[p]]

CacheInit(n) ==
  /\ memoryCache = [k \in Keys |-> NoValue]
  /\ ttlMap = [k \in Keys |-> NULL]
  /\ hits = 0
  /\ misses = 0
  /\ requestCoalescing = [k \in Keys |-> 0]
  /\ requestCounts = IF n = 0 THEN EmptyMap ELSE MapSet(EmptyMap, 0, n)
  /\ backoffDelay = NULL
  /\ promise = [p \in Promises |-> FreePromise]
  /\ getter = [c \in Getters |-> IdleGetter]
  /\ lastFailed = [k \in Keys |-> FALSE]
  /\ cev = NoCacheEvent
\* ----------------------------------------------- SOLGuardIntelligenceEngine
\* CONFIG.PHASES, in the order Object.entries yields them.
PHASES ==
  << [name |-> "immediate", modules |-> <<"security", "liquidity">>],
     [name |-> "quick", modules |-> <<"behavioral", "market">>],
     [name |-> "deep", modules |-> <<"competitive", "ecosystem", "developer", "tokenomics">>],
     [name |-> "contextual", modules |-> <<"social", "narrative", "institutional",
                                           "realtime", "exit", "education", "protection">>] >>

Range(s) == {s[i] : i \in DOMAIN s}
\* initializeModules registers a module, and a breaker, under each of these names.
Modules == UNION {Range(PHASES[i].modules) : i \in DOMAIN PHASES}

\* The modules whose executeAnalysis awaits a data source, which answers or
\* fails at some later time; the others run their dormant implementation.
RemoteModules == {"liquidity", "social"}

\* CONFIG.CACHE_TTL[moduleName.toUpperCase()] || CONFIG.CACHE_TTL.DEFAULT, seconds.
defaultTtl(m) ==
  CASE m = "security" -> 300
    [] m = "liquidity" -> 60
    [] m = "behavioral" -> 180
    [] m = "market" -> 120
    [] OTHER -> 300

SECURITY_CRITICAL == 40
LIQUIDITY_CRITICAL == 30

\* The addresses analyzeProgressive is called with.
Addresses == {"A", "B"}
\* generateCacheKey: `solguard:${module}:${address}` (the suffix is empty).
generateCacheKey(m, address) == <<"solguard", m, address>>
\* getFallbackData: `fallback:${moduleName}:${address}`.
fallbackCacheKey(m, address) == <<"fallback", m, address>>

RECURSIVE SumProducts(_, _, _)
SumProducts(values, weights, i) ==
  IF i > Len(values) THEN 0
  ELSE values[i] * weights[i] + SumProducts(values, weights, i + 1)
RECURSIVE SumSeq(_, _)
SumSeq(weights, i) == IF i > Len(weights) THEN 0 ELSE weights[i] + SumSeq(weights, i + 1)
\* calculateModuleScore, the factors it counts: value !== null && value !==
\* undefined && weights[factor] (no weight declared: weight 0).
Counted(values, weights) ==
  {i \in DOMAIN values : values[i] # NULL /\ weights[i] # 0}
Keep(seq, indices) == SelectSeq([i \in DOMAIN seq |-> IF i \in indices THEN seq[i] ELSE NULL],
                                LAMBDA v : v # NULL)
\* A missing factor counted as the value 0.
ScoreWithMissingAsZero(values, weights) ==
  LET weightedSum == SumProducts([i \in DOMAIN values |-> IF values[i] = NULL THEN 0 ELSE values[i]],
                                 weights, 1)
      totalWeight == SumSeq(weights, 1)
  IN IF totalWeight > 0 THEN (2 * weightedSum + totalWeight) \div (2 * totalWeight) ELSE 50
\* calculateModuleScore: Math.round(weightedSum / totalWeight); weights in tenths.
calculateModuleScore(values, weights) ==
  LET counted == Counted(values, weights)
      weightedSum == SumProducts(Keep(values, counted), Keep(weights, counted), 1)
      totalWeight == SumSeq(Keep(weights, counted), 1)
  IN IF totalWeight > 0 THEN (2 * weightedSum + totalWeight) \div (2 * totalWeight) ELSE 50

Max(a, b) == IF a > b THEN a ELSE b
\* The confidence as it was supplied.
SignalAsSupplied(m, type, severity, confidence) ==
  [type |-> type, severity |-> severity, confidence |-> confidence, module |-> m]
\* createSignal, confidence in percent: Math.min(Math.max(confidence, 0), 1).
createSignal(m, type, severity, confidence) ==
  [type |-> type, severity |-> severity, confidence |-> Min(Max(confidence, 0), 100),
   module |-> m]

\* `x || d`: d when x is null, undefined or 0.
OrDefault(x, d) == IF x = NULL \/ x = 0 THEN d ELSE x

\* getWeights of SecurityIntelligence and LiquidityIntelligence, in tenths.
getWeights(m) == <<4, 3, 3>>

\* SecurityIntelligence.executeAnalysis on what safeExecute returned for its
\* three collectors: the score of analyzeContractSecurity, the score of
\* analyzeOwnershipRisks and the riskScore (percent) of calculateRugPullRisk,
\* NULL for a collector that threw.  The rug pull confidence is 0.7.
SecurityAnalysis(collectors) ==
  LET score == calculateModuleScore(<<OrDefault(collectors[1], 50),
                                      OrDefault(collectors[2], 50),
                                      100 - OrDefault(collectors[3], 50)>>,
                                    getWeights("security")) IN
  [present |-> TRUE, score |-> score,
   signals |-> (IF score < SECURITY_CRITICAL
                THEN <<createSignal("security", "LOW_SECURITY_SCORE", "CRITICAL", 90)>>
                ELSE <<>>)
               \o (IF collectors[3] # NULL /\ collectors[3] > 70
                   THEN <<createSignal("security", "HIGH_RUG_RISK", "HIGH", 70)>>
                   ELSE <<>>)]

\* LiquidityIntelligence.executeAnalysis on the scores of analyzeAllPools,
\* analyzeLiquidityDepth and calculateExitLiquidity, NULL for one that threw.
LiquidityAnalysis(collectors) ==
  LET score == calculateModuleScore(<<OrDefault(collectors[1], 50),
                                      OrDefault(collectors[2], 50),
                                      OrDefault(collectors[3], 50)>>,
                                    getWeights("liquidity")) IN
  [present |-> TRUE, score |-> score,
   signals |-> IF score < LIQUIDITY_CRITICAL
               THEN <<createSignal("liquidity", "LOW_LIQUIDITY", "HIGH", 85)>>
               ELSE <<>>]

\* What the dormant implementations of the collectors return.
DormantCollectors(m) == IF m = "security" THEN <<75, 80, 30>> ELSE <<70, 75, 80>>

\* What executeAnalysis returns: the score and signals of SecurityIntelligence
\* and LiquidityIntelligence over their dormant implementations,
\* { score: 50, signals: [] } from BaseIntelligenceModule.
executeAnalysis(m) ==
  IF m = "security" THEN SecurityAnalysis(DormantCollectors(m))
  ELSE IF m = "liquidity" THEN LiquidityAnalysis(DormantCollectors(m))
  ELSE [present |-> TRUE, score |-> 50, signals |-> <<>>]

\* A field a result object does not have.
Absent == [present |-> FALSE]
NoError == ""

\* getFallbackData: the cached object under the fallback key with fallback: true
\* and half its confidence, else the safe defaults (confidence in percent).
getFallbackData(memoryCacheMap, m, address) ==
  LET cacheKey == fallbackCacheKey(m, address) IN
  IF cacheKey \in DOMAIN memoryCacheMap /\ memoryCacheMap[cacheKey].present
  THEN [present |-> TRUE, score |-> memoryCacheMap[cacheKey].score,
        signals |-> memoryCacheMap[cacheKey].signals, fallback |-> TRUE,
        cached |-> TRUE]
  ELSE [present |-> TRUE, score |-> 50, signals |-> <<>>, fallback |-> TRUE,
        cached |-> FALSE]

\* executeModuleSafely without its catch block: the promise is rejected.
Rethrows(m, address, message, memoryCacheMap) ==
  [settled |-> "rejected", module |-> m, data |-> Absent, error |-> message,
   fallbackData |-> Absent]
\* executeModuleSafely, the catch block.
CaughtResult(m, address, message, memoryCacheMap) ==
  [settled |-> "fulfilled", module |-> m, data |-> Absent, error |-> message,
   fallbackData |-> getFallbackData(memoryCacheMap, m, address)]
RejectionEscapes(m, address, memoryCacheMap) ==
  Rethrows(m, address, "Circuit breaker OPEN", memoryCacheMap)
\* executeModuleSafely when executeWithCircuitBreaker throws "Circuit breaker
\* OPEN": the throw is inside the try block, the catch block handles it.
RejectedResult(m, address, memoryCacheMap) ==
  CaughtResult(m, address, "Circuit breaker OPEN", memoryCacheMap)
\* executeModuleSafely, the try block: { module, data, timestamp }.
LiveResult(m, data) ==
  [settled |-> "fulfilled", module |-> m, data |-> data, error |-> NoError,
   fallbackData |-> Absent]

ValuesWithoutError(results) ==
  SelectSeq(results, LAMBDA r : r.settled = "fulfilled" /\ r.error = NoError)
\* Promise.allSettled, then filter(r => r.status === 'fulfilled' && r.value).
FulfilledValues(results) == SelectSeq(results, LAMBDA r : r.settled = "fulfilled")

QuickInProgress == "Analysis in progress..."
QuickHighRisk == "HIGH RISK"
QuickOpportunity == "OPPORTUNITY"
QuickMixed == "MIXED SIGNALS"
\* generateQuickVerdict
generateQuickVerdict(immediateResults) ==
  LET DataOf(m) ==
        LET found == SelectSeq(immediateResults, LAMBDA r : r.module = m) IN
        IF Len(found) = 0 THEN Absent ELSE found[1].data
      securityData == DataOf("security")
      liquidityData == DataOf("liquidity")
  IN IF ~securityData.present \/ ~liquidityData.present THEN QuickInProgress
     ELSE IF securityData.score < SECURITY_CRITICAL \/ liquidityData.score < LIQUIDITY_CRITICAL
          THEN QuickHighRisk
     ELSE IF securityData.score > 80 /\ liquidityData.score > 80 THEN QuickOpportunity
     ELSE QuickMixed

RECURSIVE Flatten(_, _)
Flatten(seqs, i) == IF i > Len(seqs) THEN <<>> ELSE seqs[i] \o Flatten(seqs, i + 1)

CountOfAll(signals, severity) == Len(signals)
\* signals.filter(s => s.severity === severity).length
SeverityCount(signals, severity) ==
  Len(SelectSeq(signals, LAMBDA s : s.severity = severity))
\* The tier of the worst severity present, whatever the counts.
RiskTierOfWorstSeverity(signals) ==
  IF SeverityCount(signals, "CRITICAL") > 0 THEN "RED"
  ELSE IF SeverityCount(signals, "HIGH") > 0 THEN "ORANGE"
  ELSE IF SeverityCount(signals, "MEDIUM") > 0 THEN "YELLOW"
  ELSE "GREEN"
\* calculateRiskTier
calculateRiskTier(signals) ==
  LET critical == SeverityCount(signals, "CRITICAL")
      high == SeverityCount(signals, "HIGH")
      medium == SeverityCount(signals, "MEDIUM")
  IN IF critical > 0 THEN "RED"
     ELSE IF high > 2 THEN "RED"
     ELSE IF high > 0 \/ medium > 3 THEN "ORANGE"
     ELSE IF medium > 0 THEN "YELLOW"
     ELSE "GREEN"

\* analyzeProgressive: Object.values(results).flat().filter(r => r && !r.error)
\* (the quick verdict string among the values has no data and adds no signal).
AllResults(phaseResults) ==
  SelectSeq(Flatten(phaseResults, 1), LAMBDA r : r.error = NoError)

\* Numbers are exact: a confidence is a whole number of percent, an accuracy
\* a number of twentieths, a severity weight a number of tenths, a sample
\* confidence a number of hundredths, and a quotient is kept as a fraction in
\* lowest terms.
RECURSIVE GCD(_, _)
GCD(a, b) == IF b = 0 THEN a ELSE GCD(b, a % b)
Ratio(num, den) == LET g == GCD(num, den) IN [num |-> num \div g, den |-> den \div g]
Half == Ratio(1, 2)
Zero == Ratio(0, 1)
One == Ratio(1, 1)

\* this.moduleAccuracy.get(signal.module) || { accuracy: 0.5, samples: 1 }
moduleAccuracy(m) ==
  CASE m = "security" -> [accuracy |-> 19, samples |-> 1000]
    [] m = "liquidity" -> [accuracy |-> 18, samples |-> 800]
    [] m = "behavioral" -> [accuracy |-> 16, samples |-> 600]
    [] m = "market" -> [accuracy |-> 15, samples |-> 500]
    [] m = "competitive" -> [accuracy |-> 14, samples |-> 300]
    [] m = "ecosystem" -> [accuracy |-> 15, samples |-> 400]
    [] m = "developer" -> [accuracy |-> 17, samples |-> 200]
    [] m = "tokenomics" -> [accuracy |-> 16, samples |-> 350]
    [] m = "social" -> [accuracy |-> 12, samples |-> 150]
    [] m = "narrative" -> [accuracy |-> 11, samples |-> 100]
    [] m = "institutional" -> [accuracy |-> 17, samples |-> 250]
    [] m = "realtime" -> [accuracy |-> 14, samples |-> 500]
    [] m = "exit" -> [accuracy |-> 18, samples |-> 400]
    [] m = "education" -> [accuracy |-> 10, samples |-> 50]
    [] m = "protection" -> [accuracy |-> 16, samples |-> 300]
    [] OTHER -> [accuracy |-> 10, samples |-> 1]

\* this.severityWeights.get(signal.severity) || 0.5
severityWeights(severity) ==
  CASE severity = "CRITICAL" -> 10
    [] severity = "HIGH" -> 8
    [] severity = "MEDIUM" -> 6
    [] severity = "LOW" -> 4
    [] OTHER -> 5

\* Without the cap at 100 samples.
UncappedWeight(signal) ==
  moduleAccuracy(signal.module).accuracy * severityWeights(signal.severity)
    * moduleAccuracy(signal.module).samples

\* calculateEnsembleConfidence, the weight of one signal: accuracy *
\* severityWeight * Math.min(samples / 100, 1), in 1/20000.
SignalWeight(signal) ==
  LET moduleStats == moduleAccuracy(signal.module)
      severityWeight == severityWeights(signal.severity)
      sampleConfidence == Min(moduleStats.samples, 100)
  IN moduleStats.accuracy * severityWeight * sampleConfidence

RECURSIVE WeightedSum(_, _)
WeightedSum(signals, i) ==
  IF i > Len(signals) THEN 0
  ELSE signals[i].confidence * SignalWeight(signals[i]) + WeightedSum(signals, i + 1)
RECURSIVE TotalWeight(_, _)
TotalWeight(signals, i) ==
  IF i > Len(signals) THEN 0 ELSE SignalWeight(signals[i]) + TotalWeight(signals, i + 1)

\* The confidence of the last signal alone.
LastSignalConfidence(signals) ==
  IF Len(signals) = 0 THEN Zero
  ELSE Ratio(signals[Len(signals)].confidence, 100)
\* calculateEnsembleConfidence
calculateEnsembleConfidence(signals) ==
  LET weightedSum == WeightedSum(signals, 1)
      totalWeight == TotalWeight(signals, 1)
  IN IF Len(signals) = 0 THEN Zero
     ELSE IF totalWeight > 0
          THEN IF weightedSum > 100 * totalWeight THEN One
               ELSE Ratio(weightedSum, 100 * totalWeight)
          ELSE Zero

RECURSIVE SumConfidence(_, _)
SumConfidence(signals, i) ==
  IF i > Len(signals) THEN 0 ELSE signals[i].confidence + SumConfidence(signals, i + 1)
Abs(x) == IF x < 0 THEN 0 - x ELSE x

\* A coefficient of 1 for close averages.
FullCorrelation(signalsA, signalsB) ==
  IF Len(signalsA) = 0 \/ Len(signalsB) = 0 THEN 0
  ELSE IF Abs(SumConfidence(signalsA, 1) * Len(signalsB) - SumConfidence(signalsB, 1) * Len(signalsA))
            < 10 * Len(signalsA) * Len(signalsB)
       THEN 10 ELSE 1
\* calculateSignalCorrelation, in tenths: 0.9 when the average confidences
\* of the two modules differ by less than 0.1, else 0.1.
calculateSignalCorrelation(signalsA, signalsB) ==
  IF Len(signalsA) = 0 \/ Len(signalsB) = 0 THEN 0
  ELSE IF Abs(SumConfidence(signalsA, 1) * Len(signalsB) - SumConfidence(signalsB, 1) * Len(signalsA))
            < 10 * Len(signalsA) * Len(signalsB)
       THEN 9 ELSE 1

\* Object.keys(signalsByModule): the modules in the order of their first signal.
RECURSIVE ModuleKeys(_, _)
ModuleKeys(signals, n) ==
  IF n = 0 THEN <<>>
  ELSE LET before == ModuleKeys(signals, n - 1) IN
       IF signals[n].module \in Range(before) THEN before
       ELSE Append(before, signals[n].module)

\* detectSignalCorrelations, the two loops from the pair (i, j) on.
RECURSIVE CorrelationsFrom(_, _, _, _)
CorrelationsFrom(signals, modules, i, j) ==
  IF i > Len(modules) THEN <<>>
  ELSE IF j > Len(modules) THEN CorrelationsFrom(signals, modules, i + 1, i + 2)
  ELSE LET correlation ==
             calculateSignalCorrelation(SelectSeq(signals, LAMBDA s : s.module = modules[i]),
                                        SelectSeq(signals, LAMBDA s : s.module = modules[j]))
       IN (IF Abs(correlation) > 8
           THEN <<[modules |-> <<modules[i], modules[j]>>, correlation |-> correlation,
                   suspiciousPattern |-> IF correlation > 9 THEN "COORDINATED_MANIPULATION"
                                         ELSE "HIGH_CORRELATION"]>>
           ELSE <<>>) \o CorrelationsFrom(signals, modules, i, j + 1)

\* detectSignalCorrelations
detectSignalCorrelations(signals) ==
  CorrelationsFrom(signals, ModuleKeys(signals, Len(signals)), 1, 2)

\* LOW as soon as a pair is recorded.
RiskOfAnyCorrelation(correlations) ==
  LET suspiciousPatterns ==
        SelectSeq(correlations, LAMBDA c : c.suspiciousPattern = "COORDINATED_MANIPULATION")
  IN IF Len(suspiciousPatterns) > 2 THEN "HIGH"
     ELSE IF Len(suspiciousPatterns) > 0 THEN "MEDIUM"
     ELSE IF Len(correlations) > 0 THEN "LOW"
     ELSE "NONE"
\* assessManipulationRisk
assessManipulationRisk(correlations) ==
  LET suspiciousPatterns ==
        SelectSeq(correlations, LAMBDA c : c.suspiciousPattern = "COORDINATED_MANIPULATION")
  IN IF Len(suspiciousPatterns) > 2 THEN "HIGH"
     ELSE IF Len(suspiciousPatterns) > 0 THEN "MEDIUM"
     ELSE IF Len(correlations) > 5 THEN "LOW"
     ELSE "NONE"

\* processSignals, the signals of the results that have data.
CollectSignals(moduleResults) ==
  LET withSignals == SelectSeq(moduleResults, LAMBDA r : r.data.present) IN
  Flatten([i \in 1..Len(withSignals) |-> withSignals[i].data.signals], 1)

UnfilteredSignals(moduleResults) == CollectSignals(moduleResults)
\* processSignals: .filter(signal => signal && signal.confidence > 0)
RetainedSignals(moduleResults) ==
  SelectSeq(CollectSignals(moduleResults), LAMBDA s : s.confidence > 0)

\* processSignals keeping only the signals of confidence between 0 and 1.
processUncertainSignals(moduleResults) ==
  LET allSignals == SelectSeq(CollectSignals(moduleResults),
                              LAMBDA s : s.confidence > 0 /\ s.confidence < 100)
      correlations == detectSignalCorrelations(allSignals)
  IN [present |-> TRUE, signals |-> allSignals,
      correlations |-> correlations,
      riskTier |-> calculateRiskTier(allSignals),
      confidence |-> calculateEnsembleConfidence(allSignals),
      signalCount |-> Len(allSignals),
      criticalCount |-> SeverityCount(allSignals, "CRITICAL"),
      manipulationRisk |-> assessManipulationRisk(correlations)]
\* processSignals
processSignals(moduleResults) ==
  LET allSignals == RetainedSignals(moduleResults)
      correlations == detectSignalCorrelations(allSignals)
  IN [present |-> TRUE, signals |-> allSignals,
      correlations |-> correlations,
      riskTier |-> calculateRiskTier(allSignals),
      confidence |-> calculateEnsembleConfidence(allSignals),
      signalCount |-> Len(allSignals),
      criticalCount |-> SeverityCount(allSignals, "CRITICAL"),
      manipulationRisk |-> assessManipulationRisk(correlations)]

\* generateComprehensiveVerdict: the parts the verdict sentence is built from.
generateComprehensiveVerdict(signals) ==
  [present |-> TRUE, riskTier |-> signals.riskTier, signalCount |-> signals.signalCount,
   criticalCount |-> signals.criticalCount]

NoInvocation == [pc |-> "none", wake |-> 0, failed |-> FALSE,
                 result |-> LiveResult("", Absent)]
NoRun == [status |-> "idle", address |-> "", phase |-> 0, results |-> <<>>, quickVerdict |-> "",
          signals |-> Absent, verdict |-> Absent, count |-> 0]

EngineInit ==
  /\ circuitBreakers = [m \in Modules |-> initializeCircuitBreaker]
  /\ stateManager = [memoryCache |-> EmptyMap, ttlMap |-> EmptyMap, hits |-> 0,
                     misses |-> 0, requestCounts |-> EmptyMap, backoffDelay |-> NULL]
  /\ invocation = [m \in Modules |-> NoInvocation]
  /\ run = NoRun

\* What the SignalEngine functions return on a list of module results:
\* processSignals on the list, calculateRiskTier and
\* calculateEnsembleConfidence on all the signals in it.
SignalEngineOn(moduleResults) ==
  [processed |-> processSignals(moduleResults),
   riskTier |-> calculateRiskTier(CollectSignals(moduleResults)),
   confidence |-> calculateEnsembleConfidence(CollectSignals(moduleResults))]

\* this.coreModules, by name (threat-analysis.js).
coreModules == {"security", "liquidity", "behavioral", "market", "risk_aggregation"}

\* No executeAnalysis call yet.
NoAnalysis == [module |-> "", collectors |-> <<>>]
NoOutput == [data |-> Absent, score |-> NULL]

SignalInit ==
  /\ signalInput = <<>>
  /\ signalOut = SignalEngineOn(<<>>)
  /\ correlationInput = <<>>
  /\ riskOut = assessManipulationRisk(<<>>)
  /\ collected = NoAnalysis
  /\ analysisOut = NoOutput
  /\ created = <<>>
  /\ job = [modules |-> {}, status |-> "initiated", finalized |-> 0,
            handler |-> [m \in coreModules |-> [pc |-> "requested", seen |-> {}]]]

LimiterCalls == 1..MaxLimiterCalls
NoLimiterEvent == [kind |-> "none", pre |-> NULL, waited |-> 0, n |-> 0]
\* new RateLimiter(): both maps empty; no call, and nothing happened yet.
\* throttles, failures: the throttled attempts and the failed operations since
\* the last success; started: second -> the operations started in it; fills:
\* see MaxFills; last: the last step.
LimiterInit ==
  limiter = [requestCounts |-> EmptyMap, backoffDelay |-> NULL,
             call |-> [c \in LimiterCalls |-> [st |-> "idle", wake |-> 0]],
             throttles |-> 0, failures |-> 0, started |-> EmptyMap, fills |-> 0,
             last |-> NoLimiterEvent]

Init == BreakerInit /\ CacheInit(0) /\ EngineInit /\ SignalInit /\ LimiterInit /\ now = 0

\* A new call takes the first free slot.
FreeSlot(c) == /\ call[c].pc = "idle"
               /\ \A d \in Calls : d < c => call[d].pc # "idle"

\* executeWithCircuitBreaker up to `throw new Error("Circuit breaker OPEN ...")`.
CallRejected(c) ==
  /\ FreeSlot(c)
  /\ opCalls + rejected < MaxCalls
  /\ ~BreakerGate(breaker, now).pass
  /\ breaker' = BreakerGate(breaker, now).b
  /\ rejected' = rejected + 1
  /\ ev' = [kind |-> "rejected", pre |-> breaker, at |-> now,
            admittedIn |-> breaker.state, invoked |-> FALSE]
  /\ UNCHANGED <<now, call, opCalls, streak, okCount, cacheVars, engVars, sigVars>>

\* executeWithCircuitBreaker up to `await operation()`: the operation is invoked.
CallAdmitted(c) ==
  /\ FreeSlot(c)
  /\ opCalls + rejected < MaxCalls
  /\ BreakerGate(breaker, now).pass
  /\ breaker' = BreakerGate(breaker, now).b
  /\ opCalls' = opCalls + 1
  /\ call' = [call EXCEPT ![c] = [pc |-> "running", admittedIn |-> breaker'.state]]
  /\ ev' = [kind |-> "admitted", pre |-> breaker, at |-> now,
            admittedIn |-> breaker'.state, invoked |-> TRUE]
  /\ UNCHANGED <<now, rejected, streak, okCount, cacheVars, engVars, sigVars>>

\* The operation resolved: the success handling, then `return result`.
CallSucceeds(c) ==
  /\ call[c].pc = "running"
  /\ breaker' = BreakerOnSuccess(breaker)
  /\ call' = [call EXCEPT ![c] = Idle]
  /\ streak' = 0
  /\ okCount' = okCount + 1
  /\ ev' = [kind |-> "success", pre |-> breaker, at |-> now,
            admittedIn |-> call[c].admittedIn, invoked |-> FALSE]
  /\ UNCHANGED <<now, opCalls, rejected, cacheVars, engVars, sigVars>>

\* The operation threw: the failure handling, then `throw error`.
CallFails(c) ==
  /\ call[c].pc = "running"
  /\ breaker' = BreakerOnFailure(breaker, now)
  /\ call' = [call EXCEPT ![c] = Idle]
  /\ streak' = streak + 1
  /\ ev' = [kind |-> "failure", pre |-> breaker, at |-> now,
            admittedIn |-> call[c].admittedIn, invoked |-> FALSE]
  /\ UNCHANGED <<now, opCalls, rejected, okCount, cacheVars, engVars, sigVars>>

\* Time passes.
Tick ==
  /\ now + TickMs <= MaxTicks * TickMs
  /\ now' = now + TickMs
  /\ UNCHANGED <<cbVars, cacheVars, engVars, sigVars>>

Next ==
  \/ \E c \in Calls : CallRejected(c)
  \/ \E c \in Calls : CallAdmitted(c)
  \/ \E c \in Calls : CallSucceeds(c)
  \/ \E c \in Calls : CallFails(c)
  \/ Tick

Spec == Init /\ [][Next]_vars

\* ------------------------------------------------------- StateManager.get
FreeGetter(c) == /\ getter[c].pc = "idle"
                 /\ \A d \in Getters : d < c => getter[d].pc # "idle"
FirstFreePromise(p) == /\ promise[p].st = "free"
                       /\ \A q \in Promises : q < p => promise[q].st = "free"

HasEntry(k) == memoryCache[k] # NoValue

GetEvent(kind, k, p, result, invoked) == [kind |-> kind, key |-> k, result |-> result]

\* get: a live entry is returned at once.
GetHit(c, k) ==
  /\ FreeGetter(c)
  /\ hits + misses < MaxGets
  /\ HasEntry(k) /\ IsLive(ttlMap[k], now)
  /\ hits' = hits + 1
  /\ cev' = GetEvent("hit", k, 0, memoryCache[k], FALSE)
  /\ UNCHANGED <<memoryCache, ttlMap, misses, requestCoalescing, requestCounts,
                 backoffDelay, promise, getter, lastFailed, now, cbVars, engVars, sigVars>>

\* get: no live entry (an expired one is deleted) and a computation of the key
\* is in the coalescing map: the call awaits that promise.
GetCoalesced(c, k) ==
  /\ FreeGetter(c)
  /\ ~(HasEntry(k) /\ IsLive(ttlMap[k], now))
  /\ Coalesces(requestCoalescing, k)
  /\ memoryCache' = [memoryCache EXCEPT ![k] = NoValue]
  /\ ttlMap' = [ttlMap EXCEPT ![k] = NULL]
  /\ getter' = [getter EXCEPT ![c] = [pc |-> "waiter", key |-> k,
                                      p |-> requestCoalescing[k], val |-> NoValue]]
  /\ cev' = GetEvent("coalesced", k, requestCoalescing[k], NoValue, FALSE)
  /\ UNCHANGED <<hits, misses, requestCoalescing, requestCounts, backoffDelay,
                 promise, lastFailed, now, cbVars, engVars, sigVars>>

\* get: a miss.  executeWithRateLimit(computeFn) runs up to its first await (the
\* operation started, or the back-off wait begun) and its promise is stored in
\* the coalescing map; the call awaits it.
GetMiss(c, k) ==
  /\ FreeGetter(c)
  /\ hits + misses < MaxGets
  /\ ~(HasEntry(k) /\ IsLive(ttlMap[k], now))
  /\ ~Coalesces(requestCoalescing, k)
  /\ \E p \in Promises :
       /\ FirstFreePromise(p)
       /\ LET r == RateLimit(requestCounts, backoffDelay, now) IN
          /\ memoryCache' = [memoryCache EXCEPT ![k] = NoValue]
          /\ ttlMap' = [ttlMap EXCEPT ![k] = NULL]
          /\ misses' = misses + 1
          /\ requestCounts' = r.counts
          /\ backoffDelay' = r.delay
          /\ promise' = [promise EXCEPT ![p] =
                           [st |-> IF r.pass THEN "running" ELSE "throttled",
                            key |-> k, val |-> NoValue, wake |-> r.wake,
                            calls |-> IF r.pass THEN 1 ELSE 0]]
          /\ requestCoalescing' = [requestCoalescing EXCEPT ![k] = p]
          /\ getter' = [getter EXCEPT ![c] = [pc |-> "owner", key |-> k, p |-> p,
                                              val |-> NoValue]]
          /\ lastFailed' = [lastFailed EXCEPT ![k] = FALSE]
          /\ cev' = GetEvent("miss", k, p, NoValue, r.pass)
  /\ UNCHANGED <<hits, now, cbVars, engVars, sigVars>>

\* RateLimiter.execute after `await this.delay(currentBackoff)`: it tries again.
RateLimitRetry(p) ==
  /\ promise[p].st = "throttled"
  /\ now * BackoffScale >= promise[p].wake
  /\ LET r == RateLimit(requestCounts, backoffDelay, now)
         k == promise[p].key IN
     /\ requestCounts' = r.counts
     /\ backoffDelay' = r.delay
     /\ promise' = [promise EXCEPT ![p].st = IF r.pass THEN "running" ELSE "throttled",
                                   ![p].wake = r.wake,
                                   ![p].calls = @ + (IF r.pass THEN 1 ELSE 0)]
     /\ cev' = GetEvent("retry", k, p, NoValue, r.pass)
  /\ UNCHANGED <<memoryCache, ttlMap, hits, misses, requestCoalescing, getter,
                 lastFailed, now, cbVars, engVars, sigVars>>

\* The operation resolved with v: the back-off is reset and the promise fulfilled.
ComputeSucceeds(p, v) ==
  /\ promise[p].st = "running"
  /\ backoffDelay' = NULL
  /\ promise' = [promise EXCEPT ![p].st = "ok", ![p].val = v]
  /\ cev' = GetEvent("computed", promise[p].key, p, v, FALSE)
  /\ UNCHANGED <<memoryCache, ttlMap, hits, misses, requestCoalescing, requestCounts,
                 getter, lastFailed, now, cbVars, engVars, sigVars>>

\* The operation threw: the back-off grows and the promise is rejected.
ComputeFails(p) ==
  /\ promise[p].st = "running"
  /\ backoffDelay' = BackoffAfterError(backoffDelay)
  /\ promise' = [promise EXCEPT ![p].st = "err"]
  /\ cev' = GetEvent("threw", promise[p].key, p, NoValue, FALSE)
  /\ UNCHANGED <<memoryCache, ttlMap, hits, misses, requestCoalescing, requestCounts,
                 getter, lastFailed, now, cbVars, engVars, sigVars>>

\* The owner after `await computePromise` fulfilled: set(key, computed, ttl),
\* up to `await this.set(...)`.
OwnerStores(c) ==
  /\ getter[c].pc = "owner"
  /\ promise[getter[c].p].st = "ok"
  /\ LET k == getter[c].key
         g == [getter EXCEPT ![c].pc = "stored", ![c].val = promise[getter[c].p].val] IN
     /\ memoryCache' = [memoryCache EXCEPT ![k] = promise[getter[c].p].val]
     /\ ttlMap' = [ttlMap EXCEPT ![k] = now + TtlOf(k) * MsPerSecond]
     /\ getter' = g
     /\ promise' = Collect(promise, g, requestCoalescing)
     /\ cev' = GetEvent("stored", k, getter[c].p, promise[getter[c].p].val, FALSE)
  /\ UNCHANGED <<hits, misses, requestCoalescing, requestCounts, backoffDelay,
                 lastFailed, now, cbVars, engVars, sigVars>>

\* The owner after `await this.set(...)`: `return computed`, and the finally
\* block deletes the key from the coalescing map.
OwnerReturns(c) ==
  /\ getter[c].pc = "stored"
  /\ LET k == getter[c].key
         g == [getter EXCEPT ![c] = IdleGetter]
         rc == DeleteMarker(requestCoalescing, k) IN
     /\ requestCoalescing' = rc
     /\ getter' = g
     /\ promise' = Collect(promise, g, rc)
     /\ cev' = GetEvent("returned", k, getter[c].p, getter[c].val, FALSE)
  /\ UNCHANGED <<memoryCache, ttlMap, hits, misses, requestCounts, backoffDelay,
                 lastFailed, now, cbVars, engVars, sigVars>>

\* The owner after `await computePromise` rejected: the finally block deletes the
\* key from the coalescing map and the error goes to the caller.
OwnerThrows(c) ==
  /\ getter[c].pc = "owner"
  /\ promise[getter[c].p].st = "err"
  /\ LET k == getter[c].key
         g == [getter EXCEPT ![c] = IdleGetter]
         rc == DeleteMarker(requestCoalescing, k) IN
     /\ requestCoalescing' = rc
     /\ getter' = g
     /\ promise' = Collect(promise, g, rc)
     /\ lastFailed' = [lastFailed EXCEPT ![k] = TRUE]
     /\ cev' = GetEvent("ownerThrew", k, getter[c].p, NoValue, FALSE)
  /\ UNCHANGED <<memoryCache, ttlMap, hits, misses, requestCounts, backoffDelay,
                 now, cbVars, engVars, sigVars>>

\* A coalesced call after the promise it awaits settled: its value or its error.
WaiterReturns(c) ==
  /\ getter[c].pc = "waiter"
  /\ promise[getter[c].p].st \in {"ok", "err"}
  /\ LET k == getter[c].key
         g == [getter EXCEPT ![c] = IdleGetter]
         rc == MarkerAfterWaiter(requestCoalescing, k) IN
     /\ requestCoalescing' = rc
     /\ getter' = g
     /\ promise' = Collect(promise, g, rc)
     /\ cev' = GetEvent(IF promise[getter[c].p].st = "ok" THEN "waiterReturned"
                        ELSE "waiterThrew", k, getter[c].p,
                        promise[getter[c].p].val, FALSE)
  /\ UNCHANGED <<memoryCache, ttlMap, hits, misses, requestCounts, backoffDelay,
                 lastFailed, now, cbVars, engVars, sigVars>>

\* A continuation is queued: a settled promise has a call awaiting it, or an
\* owner is between set and its finally block.  Queued continuations run before
\* the clock moves on.
ContinuationQueued ==
  \E c \in Getters :
     \/ getter[c].pc = "stored"
     \/ getter[c].pc \in {"owner", "waiter"} /\ promise[getter[c].p].st \in {"ok", "err"}

\* A second passes.
CacheTick ==
  /\ ~ContinuationQueued
  /\ now + MsPerSecond <= MaxCacheTicks * MsPerSecond
  /\ now' = now + MsPerSecond
  /\ UNCHANGED <<cacheVars, cbVars, engVars, sigVars>>

CacheNext ==
  \/ \E c \in Getters, k \in Keys : GetHit(c, k)
  \/ \E c \in Getters, k \in Keys : GetCoalesced(c, k)
  \/ \E c \in Getters, k \in Keys : GetMiss(c, k)
  \/ \E p \in Promises : RateLimitRetry(p)
  \/ \E p \in Promises, v \in Values : ComputeSucceeds(p, v)
  \/ \E p \in Promises : ComputeFails(p)
  \/ \E c \in Getters : OwnerStores(c)
  \/ \E c \in Getters : OwnerReturns(c)
  \/ \E c \in Getters : OwnerThrows(c)
  \/ \E c \in Getters : WaiterReturns(c)
  \/ CacheTick

\* The cache starts empty, its limiter with the load of the other keys.
CacheStart ==
  \E n \in OtherRequests :
     BreakerInit /\ CacheInit(n) /\ EngineInit /\ SignalInit /\ LimiterInit /\ now = 0

CacheSpec == CacheStart /\ [][CacheNext]_vars

\* ------------------------------------------------------ analyzeProgressive
\* One analyzeProgressive call runs on the engine at a time, so no two calls of
\* StateManager.get for one key are in flight and requestCoalescing never holds
\* the key a call arrives with.  A continuation that needs no input from
\* outside (after a cache hit, after a rejection by the breaker, after a
\* dormant executeAnalysis) runs before any timer or answer of a data source;
\* it is taken in the step that queued it.

\* StateManager.get on the module's key, up to the first await: a hit, or a miss
\* that enters the rate limiter (the entry the check found expired is deleted).
EngineGet(sm, m, address, t) ==
  LET key == generateCacheKey(m, address) IN
  IF key \in DOMAIN sm.memoryCache /\ key \in DOMAIN sm.ttlMap /\ IsLive(sm.ttlMap[key], t)
  THEN [hit |-> TRUE, pass |-> TRUE, wake |-> 0, value |-> sm.memoryCache[key],
        sm |-> [sm EXCEPT !.hits = @ + 1]]
  ELSE LET r == RateLimit(sm.requestCounts, sm.backoffDelay, t) IN
       [hit |-> FALSE, pass |-> r.pass, wake |-> r.wake, value |-> Absent,
        sm |-> [sm EXCEPT !.memoryCache = MapDelete(@, key),
                          !.ttlMap = IF key \in DOMAIN sm.memoryCache
                                     THEN MapDelete(@, key) ELSE @,
                          !.misses = @ + 1,
                          !.requestCounts = r.counts,
                          !.backoffDelay = r.delay]]

\* The one value of a set of one: a state of the engine is evaluated once,
\* then used.
Once(S) == CHOOSE x \in S : TRUE

\* executeModuleSafely(module) up to its first await: the breaker gate, then
\* module.analyze -> getCached -> StateManager.get.  s holds the breakers, the
\* state manager and the calls.  A rejected call goes to the catch block, a hit
\* to the success handling of the breaker.
EnterModule(m, state, t) ==
  Once({
    LET gate == BreakerGate(s.cb[m], t) IN
    IF ~gate.pass
    THEN [s EXCEPT !.inv[m] = [pc |-> "done", wake |-> 0, failed |-> TRUE,
                               result |-> RejectedResult(m, s.address, s.sm.memoryCache)]]
    ELSE LET g == EngineGet(s.sm, m, s.address, t) IN
         IF g.hit
         THEN [cb |-> [s.cb EXCEPT ![m] = BreakerOnSuccess(gate.b)],
               sm |-> g.sm, address |-> s.address,
               inv |-> [s.inv EXCEPT ![m] = [pc |-> "done", wake |-> 0, failed |-> FALSE,
                                             result |-> LiveResult(m, g.value)]]]
         ELSE [cb |-> [s.cb EXCEPT ![m] = gate.b],
               sm |-> g.sm, address |-> s.address,
               inv |-> [s.inv EXCEPT ![m] = [pc |-> IF g.pass THEN "running" ELSE "waiting",
                                             wake |-> g.wake, failed |-> FALSE,
                                             result |-> NoInvocation.result]]]
    : s \in {state}})

\* executeAnalysis of module m resolved at time t: the limiter deletes the
\* back-off, get stores the value with the module's ttl, the breaker handles the
\* success and executeModuleSafely returns { module, data }.
AnalysisResolved(m, s, t) ==
  LET key == generateCacheKey(m, s.address)
      data == executeAnalysis(m) IN
  [address |-> s.address,
   cb |-> [s.cb EXCEPT ![m] = BreakerOnSuccess(@)],
   sm |-> [s.sm EXCEPT !.backoffDelay = NULL,
                       !.memoryCache = MapSet(@, key, data),
                       !.ttlMap = MapSet(@, key, t + defaultTtl(m) * MsPerSecond)],
   inv |-> [s.inv EXCEPT ![m] = [pc |-> "done", wake |-> 0, failed |-> FALSE,
                                 result |-> LiveResult(m, data)]]]

\* executeAnalysis of module m threw at time t: the limiter grows the back-off,
\* get stores nothing, the breaker handles the failure and the catch block of
\* executeModuleSafely builds the result from getFallbackData.
AnalysisThrew(m, s, t) ==
  [address |-> s.address,
   cb |-> [s.cb EXCEPT ![m] = BreakerOnFailure(@, t)],
   sm |-> [s.sm EXCEPT !.backoffDelay = BackoffAfterError(@)],
   inv |-> [s.inv EXCEPT ![m] = [pc |-> "done", wake |-> 0, failed |-> TRUE,
                                 result |-> CaughtResult(m, s.address, "analysis failed",
                                                         s.sm.memoryCache)]]]

\* The dormant executeAnalysis of a module outside RemoteModules resolves
\* without waiting for anything.
ResolveDormant(m, state, t) ==
  Once({IF m \notin RemoteModules /\ s.inv[m].pc = "running" THEN AnalysisResolved(m, s, t) ELSE s
          : s \in {state}})

RECURSIVE EnterModules(_, _, _, _)
EnterModules(moduleNames, i, s, t) ==
  IF i > Len(moduleNames) THEN s
  ELSE EnterModules(moduleNames, i + 1, EnterModule(moduleNames[i], s, t), t)
RECURSIVE ResolveDormants(_, _, _, _)
ResolveDormants(moduleNames, i, s, t) ==
  IF i > Len(moduleNames) THEN s
  ELSE ResolveDormants(moduleNames, i + 1, ResolveDormant(moduleNames[i], s, t), t)
\* executePhaseOptimized up to `await Promise.allSettled`: executeModuleSafely is
\* entered for every module in order; then the continuations queued run.
executePhaseOptimized(moduleNames, s, t) ==
  ResolveDormants(moduleNames, 1, EnterModules(moduleNames, 1, s, t), t)

EngineState == [address |-> run.address, cb |-> circuitBreakers, sm |-> stateManager,
                inv |-> invocation]
SetEngineState(s) ==
  /\ circuitBreakers' = s.cb
  /\ stateManager' = s.sm
  /\ invocation' = s.inv

RunFree == run.status \in {"idle", "returned"}

\* analyzeProgressive(address) is called: the first phase is started.
StartRun(address) ==
  /\ RunFree
  /\ run.count < MaxRuns
  /\ SetEngineState(executePhaseOptimized(PHASES[1].modules,
                      [EngineState EXCEPT !.address = address,
                                          !.inv = [m \in Modules |-> NoInvocation]], now))
  /\ run' = [NoRun EXCEPT !.status = "running", !.address = address, !.phase = 1,
                          !.count = run.count + 1]
  /\ UNCHANGED <<now, cbVars, cacheVars, sigVars>>

\* The data source of module m answered: executeAnalysis resolves.
ModuleSucceeds(m) ==
  /\ m \in RemoteModules
  /\ invocation[m].pc = "running"
  /\ SetEngineState(AnalysisResolved(m, EngineState, now))
  /\ UNCHANGED <<run, now, cbVars, cacheVars, sigVars>>

\* The data source of module m failed: executeAnalysis throws.
ModuleThrows(m) ==
  /\ m \in RemoteModules
  /\ invocation[m].pc = "running"
  /\ SetEngineState(AnalysisThrew(m, EngineState, now))
  /\ UNCHANGED <<run, now, cbVars, cacheVars, sigVars>>

\* The time (ms, rounded up) at which the back-off wait of module m ends.
WakeTime(m) == (invocation[m].wake + BackoffScale - 1) \div BackoffScale
Waiting == {m \in Modules : invocation[m].pc = "waiting"}

\* Time passes until the earliest back-off wait in progress ends:
\* RateLimiter.execute after `await this.delay(currentBackoff)` tries again.
TimerFires(m) ==
  /\ m \in Waiting
  /\ \A x \in Waiting : WakeTime(m) <= WakeTime(x)
  /\ LET t == IF WakeTime(m) > now THEN WakeTime(m) ELSE now
         r == RateLimit(stateManager.requestCounts, stateManager.backoffDelay, t)
         s == [EngineState EXCEPT !.sm.requestCounts = r.counts,
                                  !.sm.backoffDelay = r.delay,
                                  !.inv[m].pc = IF r.pass THEN "running" ELSE "waiting",
                                  !.inv[m].wake = r.wake] IN
     /\ now' = t
     /\ SetEngineState(ResolveDormant(m, s, t))
  /\ UNCHANGED <<run, cbVars, cacheVars, sigVars>>

PhaseModules == PHASES[run.phase].modules
PhaseEntered == run.status = "running"
PhaseSettled ==
  /\ run.status = "running"
  /\ \A m \in Range(PhaseModules) : invocation[m].pc = "done"
\* await Promise.allSettled(modulePromises) and the filter on the outcome.
PhaseResults ==
  FulfilledValues([i \in 1..Len(PhaseModules) |-> invocation[PhaseModules[i]].result])
QuickVerdictAfter(phaseName, phaseResults, previous) ==
  IF phaseName = "immediate" THEN generateQuickVerdict(phaseResults) ELSE previous

\* A phase other than the last settled: its results are recorded (and the quick
\* verdict after the immediate phase), and the next phase is started.
NextPhase ==
  /\ PhaseSettled
  /\ run.phase < Len(PHASES)
  /\ SetEngineState(executePhaseOptimized(PHASES[run.phase + 1].modules, EngineState, now))
  /\ run' = [run EXCEPT !.results = Append(@, PhaseResults),
                        !.quickVerdict = QuickVerdictAfter(PHASES[run.phase].name,
                                                           PhaseResults, @),
                        !.phase = @ + 1]
  /\ UNCHANGED <<now, cbVars, cacheVars, sigVars>>

\* The last phase settled: the signals of the results without error are
\* processed and analyzeProgressive returns { phases, signals, verdict }.
FinishRun ==
  /\ PhaseSettled
  /\ run.phase = Len(PHASES)
  /\ LET results == Append(run.results, PhaseResults)
         signals == processSignals(AllResults(results)) IN
     run' = [run EXCEPT !.status = "returned",
                        !.results = results,
                        !.quickVerdict = QuickVerdictAfter(PHASES[run.phase].name,
                                                           PhaseResults, @),
                        !.signals = signals,
                        !.verdict = generateComprehensiveVerdict(signals)]
  /\ UNCHANGED <<circuitBreakers, stateManager, invocation, now, cbVars, cacheVars, sigVars>>

\* Object.values(analysis.phases).flat(): `phases` is the `results` object, whose
\* keys are, in the order they were set, immediate, quickVerdict, quick, deep,
\* contextual; flat() spreads the arrays and keeps the quick verdict, a string,
\* as an entry of its own.
FlattenedPhases(r) ==
  IF Len(r.results) = 0 THEN <<>>
  ELSE r.results[1] \o <<[text |-> r.quickVerdict]>>
         \o Flatten(SubSeq(r.results, 2, Len(r.results)), 1)
\* runComprehensiveAnalysis: metadata.modulesExecuted
modulesExecuted(r) == Len(FlattenedPhases(r))

\* Object.values(analysis.phases): the values of the `results` object in the
\* order of its keys, each with whether it is an array.
PhaseValues(r) ==
  IF Len(r.results) = 0 THEN <<>>
  ELSE <<[isArray |-> TRUE, items |-> r.results[1]], [isArray |-> FALSE, items |-> <<>>]>>
         \o [i \in 1..(Len(r.results) - 1) |-> [isArray |-> TRUE, items |-> r.results[i + 1]]]
\* moduleResult.signals, pushed when it is an array (a ModuleResult of the
\* engine holds its signals under `data`, not at the top).
TopSignals(moduleResult) ==
  IF "signals" \in DOMAIN moduleResult THEN moduleResult.signals ELSE <<>>
RECURSIVE ThreatSignals(_, _)
ThreatSignals(moduleResults, i) ==
  IF i > Len(moduleResults) THEN <<>>
  ELSE TopSignals(moduleResults[i]) \o ThreatSignals(moduleResults, i + 1)
\* transformToThreatFormat, the overall risk tier (the signals carry a severity
\* and no tier).
ThreatRiskTier(allSignals) ==
  LET criticalSignals == SelectSeq(allSignals, LAMBDA x : x.severity = "CRITICAL")
      highSignals == SelectSeq(allSignals, LAMBDA x : x.severity = "HIGH")
      mediumSignals == SelectSeq(allSignals, LAMBDA x : x.severity = "MEDIUM")
  IN IF Len(criticalSignals) > 0 THEN "RED"
     ELSE IF Len(highSignals) > 1 THEN "RED"
     ELSE IF Len(highSignals) > 0 \/ Len(mediumSignals) > 2 THEN "ORANGE"
     ELSE IF Len(mediumSignals) > 0 THEN "YELLOW"
     ELSE "GREEN"
\* transformToThreatFormat(analysis, address): phaseModules.forEach throws a
\* TypeError on a value that is no array.
transformToThreatFormat(r) ==
  LET values == PhaseValues(r) IN
  IF \E k \in DOMAIN values : ~values[k].isArray
  THEN [threw |-> TRUE, riskTier |-> ""]
  ELSE [threw |-> FALSE,
        riskTier |-> ThreatRiskTier(ThreatSignals(
                        Flatten([k \in DOMAIN values |-> values[k].items], 1), 1))]

\* Time passes between two analyzeProgressive calls.
EngineIdles ==
  /\ RunFree
  /\ now + IdleMs <= MaxIdles * IdleMs
  /\ now' = now + IdleMs
  /\ UNCHANGED <<engVars, cbVars, cacheVars, sigVars>>

EngineNext ==
  \/ StartRun("A")
  \/ \E m \in Modules : ModuleSucceeds(m)
  \/ \E m \in Modules : ModuleThrows(m)
  \/ \E m \in Modules : TimerFires(m)
  \/ NextPhase
  \/ FinishRun
  \/ EngineIdles

EngineSpec == Init /\ [][EngineNext]_vars

\* What the event loop guarantees: a timer that is due fires, and the
\* continuation of a settled Promise.allSettled runs.  Nothing in the code
\* makes the data source of a module answer.
EngineFairness ==
  /\ WF_vars(NextPhase)
  /\ WF_vars(FinishRun)
  /\ WF_vars(\E m \in Modules : TimerFires(m))
\* The engine with data sources that never fail, and no idle time.
LiveNext ==
  \/ StartRun("A")
  \/ \E m \in Modules : ModuleSucceeds(m)
  \/ \E m \in Modules : TimerFires(m)
  \/ NextPhase
  \/ FinishRun
EngineLiveSpec == Init /\ [][LiveNext]_vars /\ EngineFairness

\* The engine analysing several addresses in turn, the data source of the
\* liquidity module the only one that fails, and no idle time between calls.
AddressNext ==
  \/ \E address \in Addresses : StartRun(address)
  \/ \E m \in Modules : ModuleSucceeds(m)
  \/ ModuleThrows("liquidity")
  \/ \E m \in Modules : TimerFires(m)
  \/ NextPhase
  \/ FinishRun

AddressSpec == Init /\ [][AddressNext]_vars

\* --------------------------------------- SignalEngine on lists of results
\* The modules, severities and confidences (percent) of the signals tried;
\* "education" has fewer than 100 samples.
SignalModules == <<"security", "education">>
Severities == <<"LOW", "MEDIUM", "HIGH", "CRITICAL">>
Confidences == <<0, 100>>
\* The signals tried, module by module.
SignalChoices ==
  [k \in 1..(Len(SignalModules) * Len(Severities) * Len(Confidences)) |->
     createSignal(SignalModules[((k - 1) \div (Len(Severities) * Len(Confidences))) + 1],
                  "SIGNAL",
                  Severities[(((k - 1) \div Len(Confidences)) % Len(Severities)) + 1],
                  Confidences[((k - 1) % Len(Confidences)) + 1])]
RankOf(signal) == CHOOSE k \in DOMAIN SignalChoices : SignalChoices[k] = signal

\* executeModuleSafely, the result of a module whose data carries the signals.
ResultWith(m, signals) == LiveResult(m, [present |-> TRUE, score |-> 50, signals |-> signals])

\* The module results with one more signal, the modules and the signals of
\* each module kept in the order of SignalChoices.
InsertSignal(moduleResults, signal) ==
  LET all == CollectSignals(moduleResults)
      merged == SelectSeq(all, LAMBDA s : RankOf(s) <= RankOf(signal)) \o <<signal>>
                \o SelectSeq(all, LAMBDA s : RankOf(s) > RankOf(signal))
      present == SelectSeq(SignalModules, LAMBDA m : \E i \in DOMAIN merged : merged[i].module = m)
  IN [i \in DOMAIN present |->
        ResultWith(present[i], SelectSeq(merged, LAMBDA s : s.module = present[i]))]

\* The module results with one more signal, pushed on the signals of its
\* module's result, or in a new last result.
WithSignal(moduleResults, signal) ==
  LET Holds(i) == moduleResults[i].module = signal.module /\ moduleResults[i].data.present IN
  IF \E i \in DOMAIN moduleResults : Holds(i)
  THEN [i \in DOMAIN moduleResults |->
          IF Holds(i)
          THEN ResultWith(signal.module, Append(moduleResults[i].data.signals, signal))
          ELSE moduleResults[i]]
  ELSE Append(moduleResults, ResultWith(signal.module, <<signal>>))

Swap(seq, i) ==
  [k \in DOMAIN seq |-> IF k = i THEN seq[i + 1] ELSE IF k = i + 1 THEN seq[i] ELSE seq[k]]

\* processSignals and the functions it calls, applied to a new list.
Process(moduleResults) ==
  /\ signalInput' = moduleResults
  /\ signalOut' = SignalEngineOn(moduleResults)
  /\ UNCHANGED <<cbVars, cacheVars, engVars, fnVars, now>>

AddSignal(signal) ==
  /\ Len(CollectSignals(signalInput)) < MaxSignals
  /\ Process(InsertSignal(signalInput, signal))

SignalNext == \E k \in DOMAIN SignalChoices : AddSignal(SignalChoices[k])

SignalSpec == Init /\ [][SignalNext]_vars

\* The signals whose order is varied: four modules whose average confidences
\* are close, and two more signals.
OrderChoices ==
  {createSignal("security", "SIGNAL", "CRITICAL", 60),
   createSignal("liquidity", "SIGNAL", "HIGH", 65),
   createSignal("social", "SIGNAL", "MEDIUM", 60),
   createSignal("education", "SIGNAL", "LOW", 65),
   createSignal("security", "SIGNAL", "LOW", 10),
   createSignal("education", "SIGNAL", "MEDIUM", 0)}

PushSignal(signal) ==
  /\ Len(CollectSignals(signalInput)) < MaxOrderSignals
  /\ Process(WithSignal(signalInput, signal))

\* A result of executeModuleSafely's catch block: it has no data.
PushFailedResult(m) ==
  /\ \A i \in DOMAIN signalInput : signalInput[i].data.present
  /\ Process(Append(signalInput, CaughtResult(m, "A", "Timeout", EmptyMap)))

SwapResults(i) == Process(Swap(signalInput, i))

SwapSignals(i, j) ==
  Process([signalInput EXCEPT ![i].data.signals = Swap(@, j)])

OrderNext ==
  \/ \E signal \in OrderChoices : PushSignal(signal)
  \/ PushFailedResult("market")
  \/ \E i \in 1..(Len(signalInput) - 1) : SwapResults(i)
  \/ \E i \in DOMAIN signalInput :
        /\ signalInput[i].data.present
        /\ \E j \in 1..(Len(signalInput[i].data.signals) - 1) : SwapSignals(i, j)

OrderSpec == Init /\ [][OrderNext]_vars

\* ------------------------------------------- RateLimiter.execute, alone
LimiterUnchanged ==
  UNCHANGED <<cbVars, cacheVars, engVars, signalInput, signalOut, correlationInput,
              riskOut, collected, analysisOut, created, job>>

\* RateLimiter.execute from its first line to its first await, for call c: the
\* operation is started, or the call waits currentBackoff.
Attempt(c) ==
  LET r == RateLimit(limiter.requestCounts, limiter.backoffDelay, now)
      currentSecond == now \div MsPerSecond IN
  /\ limiter' =
       IF r.pass
       THEN [limiter EXCEPT !.requestCounts = r.counts,
                            !.call[c] = [st |-> "running", wake |-> 0],
                            !.started = MapSet(@, currentSecond, CountOf(@, currentSecond) + 1),
                            !.last = [kind |-> "started", pre |-> limiter.backoffDelay,
                                      waited |-> 0, n |-> 0]]
       ELSE [limiter EXCEPT !.backoffDelay = r.delay,
                            !.call[c] = [st |-> "throttled", wake |-> r.wake],
                            !.throttles = @ + 1,
                            !.last = [kind |-> "throttled", pre |-> limiter.backoffDelay,
                                      waited |-> r.wake - now * BackoffScale,
                                      n |-> limiter.throttles + 1]]
  /\ UNCHANGED now
  /\ LimiterUnchanged

\* execute(operation) is called.
LimiterExecute(c) ==
  /\ limiter.call[c].st = "idle"
  /\ \A d \in LimiterCalls : d < c => limiter.call[d].st # "idle"
  /\ Attempt(c)

\* `await this.delay(currentBackoff)` is over: return await this.execute(operation).
LimiterRetry(c) ==
  /\ limiter.call[c].st = "throttled"
  /\ now * BackoffScale >= limiter.call[c].wake
  /\ Attempt(c)

\* The operation of call c resolved: backoffDelays.delete('global').
OperationSucceeds(c) ==
  /\ limiter.call[c].st = "running"
  /\ limiter' = [limiter EXCEPT !.backoffDelay = NULL,
                                !.call[c] = [st |-> "returned", wake |-> 0],
                                !.throttles = 0,
                                !.failures = 0,
                                !.last = [kind |-> "succeeded", pre |-> limiter.backoffDelay,
                                          waited |-> 0, n |-> 0]]
  /\ UNCHANGED now
  /\ LimiterUnchanged

\* The operation of call c threw: the stored delay grows by half.
OperationFails(c) ==
  /\ limiter.call[c].st = "running"
  /\ limiter' = [limiter EXCEPT !.backoffDelay = BackoffAfterError(@),
                                !.call[c] = [st |-> "threw", wake |-> 0],
                                !.failures = Min(@ + 1, 1),
                                !.last = [kind |-> "failed", pre |-> limiter.backoffDelay,
                                          waited |-> 0, n |-> 0]]
  /\ UNCHANGED now
  /\ LimiterUnchanged

RECURSIVE Repeat(_, _, _)
\* The counts after n more execute calls at time t, each of which starts its
\* operation.
Repeat(counts, n, t) ==
  IF n = 0 THEN counts ELSE Repeat(RateLimit(counts, NULL, t).counts, n - 1, t)

\* Other users of the limiter call execute until the current second is at its
\* ceiling (their operations take longer than the behaviour lasts).
OthersFill ==
  LET currentSecond == now \div MsPerSecond
      room == maxRequestsPerSecond - CountOf(limiter.requestCounts, currentSecond) IN
  /\ limiter.fills < MaxFills
  /\ room > 0
  /\ limiter' = [limiter EXCEPT !.requestCounts = Repeat(@, room, now),
                                !.started = MapSet(@, currentSecond,
                                                   CountOf(@, currentSecond) + room),
                                !.fills = @ + 1]
  /\ UNCHANGED now
  /\ LimiterUnchanged

Throttled == {c \in LimiterCalls : limiter.call[c].st = "throttled"}
WakeOf(c) == (limiter.call[c].wake + BackoffScale - 1) \div BackoffScale

\* Time passes until the earliest wait in progress ends (the clock of the
\* limiter is followed from one wait to the next).
LimiterWait ==
  /\ \E c \in Throttled :
        /\ \A d \in Throttled : WakeOf(c) <= WakeOf(d)
        /\ WakeOf(c) > now
        /\ now' = WakeOf(c)
  /\ UNCHANGED limiter
  /\ LimiterUnchanged

LimiterNext ==
  \/ \E c \in LimiterCalls : LimiterExecute(c)
  \/ \E c \in LimiterCalls : LimiterRetry(c)
  \/ \E c \in LimiterCalls : OperationSucceeds(c)
  \/ \E c \in LimiterCalls : OperationFails(c)
  \/ OthersFill
  \/ LimiterWait

LimiterSpec == Init /\ [][LimiterNext]_vars

\* ------------------------------------------------ createSignal, alone
\* Confidences a module may supply, in percent: below, on and inside the
\* bounds of [0,1], and above.
SuppliedConfidences == {-50, 0, 85, 100, 150}

\* A module calls this.createSignal(type, severity, confidence, ...).
CreateSignal(m, severity, confidence) ==
  /\ Len(created) < MaxCreated
  /\ created' = Append(created, [supplied |-> confidence,
                                  signal |-> createSignal(m, "SIGNAL", severity, confidence)])
  /\ UNCHANGED <<cbVars, cacheVars, engVars, signalInput, signalOut, correlationInput,
                 riskOut, collected, analysisOut, limiter, job, now>>

CreateNext ==
  \E m \in {"security", "liquidity"} : \E k \in DOMAIN Severities :
    \E confidence \in SuppliedConfidences : CreateSignal(m, Severities[k], confidence)

CreateSpec == Init /\ [][CreateNext]_vars

\* ------------------------------ handleModuleCompletion, for one job
\* Each core module sends one completion event; the handlers of the events run
\* concurrently (separate invocations sharing the job record in the table).
JobUnchanged ==
  UNCHANGED <<cbVars, cacheVars, engVars, signalInput, signalOut, correlationInput,
              riskOut, collected, analysisOut, limiter, created, now>>

\* handleModuleCompletion, the transactWrite: SET modules.#module = :result.
RecordResult(m) ==
  /\ job.handler[m].pc = "requested"
  /\ job' = [job EXCEPT !.modules = @ \cup {m}, !.handler[m].pc = "recorded"]
  /\ JobUnchanged

\* The transactWrite fails: the catch block marks the job failed.
RecordFails(m) ==
  /\ job.handler[m].pc = "requested"
  /\ job' = [job EXCEPT !.status = "failed", !.handler[m].pc = "done"]
  /\ JobUnchanged

\* const job = await this.getJobState(jobId)
ReadJob(m) ==
  /\ job.handler[m].pc = "recorded"
  /\ job' = [job EXCEPT !.handler[m].pc = "read", !.handler[m].seen = job.modules]
  /\ JobUnchanged

\* isAnalysisComplete
isAnalysisComplete(modules) == \A m \in coreModules : m \in modules

\* if (await this.isAnalysisComplete(job)) await this.finalizeAnalysis(job):
\* finalizeAnalysis stores the final result and the status 'completed'.
Finalize(m) ==
  /\ job.handler[m].pc = "read"
  /\ isAnalysisComplete(job.handler[m].seen)
  /\ job' = [job EXCEPT !.status = "completed", !.finalized = @ + 1,
                        !.handler[m].pc = "done"]
  /\ JobUnchanged

\* else: a progress update is sent.
ReportProgress(m) ==
  /\ job.handler[m].pc = "read"
  /\ ~isAnalysisComplete(job.handler[m].seen)
  /\ job' = [job EXCEPT !.handler[m].pc = "done"]
  /\ JobUnchanged

JobNext ==
  \/ \E m \in coreModules : RecordResult(m)
  \/ \E m \in coreModules : RecordFails(m)
  \/ \E m \in coreModules : ReadJob(m)
  \/ \E m \in coreModules : Finalize(m)
  \/ \E m \in coreModules : ReportProgress(m)

JobSpec == Init /\ [][JobNext]_vars

\* ------------------------------- assessManipulationRisk on lists of pairs
\* The modules, in the order of the phases.
ModuleList == Flatten([i \in DOMAIN PHASES |-> PHASES[i].modules], 1)

\* The k-th correlation of a list, with the tag given: a pair of modules, and
\* a correlation (tenths) above the threshold of the tag.
CorrelationEntry(k, suspiciousPattern) ==
  [modules |-> <<ModuleList[1], ModuleList[k + 1]>>,
   correlation |-> IF suspiciousPattern = "COORDINATED_MANIPULATION" THEN 10 ELSE 9,
   suspiciousPattern |-> suspiciousPattern]

\* assessManipulationRisk applied to the list with one more correlation.
AddCorrelation(suspiciousPattern) ==
  /\ Len(correlationInput) < MaxCorrelations
  /\ correlationInput' =
       Append(correlationInput, CorrelationEntry(Len(correlationInput) + 1, suspiciousPattern))
  /\ riskOut' = assessManipulationRisk(correlationInput')
  /\ UNCHANGED <<cbVars, cacheVars, engVars, signalInput, signalOut, collected,
                 analysisOut, limiter, created, job, now>>

RiskNext ==
  \E suspiciousPattern \in {"HIGH_CORRELATION", "COORDINATED_MANIPULATION"} :
     AddCorrelation(suspiciousPattern)

RiskSpec == Init /\ [][RiskNext]_vars

\* --------------------- executeAnalysis of the two implemented modules
\* A collector that has not settled yet.
Pending == -2
\* What a collector returns: a score, or a riskScore in percent.
CollectorValues == {0, 30, 90}
Collectors == 1..3
AnalysedModules == {"security", "liquidity"}

AllSettled(collectors) == \A i \in DOMAIN collectors : collectors[i] # Pending

\* executeAnalysis after Promise.all of the safeExecute calls, and
\* calculateModuleScore on what the collectors came to.
AnalysisOn(m, collectors) ==
  IF ~AllSettled(collectors) THEN NoOutput
  ELSE [data |-> IF m = "security" THEN SecurityAnalysis(collectors)
                 ELSE LiquidityAnalysis(collectors),
        score |-> calculateModuleScore(collectors, getWeights(m))]

\* executeAnalysis is called: the three collectors are started.
StartAnalysis(m) ==
  /\ AllSettled(collected.collectors)
  /\ collected' = [module |-> m, collectors |-> [i \in Collectors |-> Pending]]
  /\ analysisOut' = NoOutput
  /\ UNCHANGED <<cbVars, cacheVars, engVars, signalInput, signalOut, correlationInput,
                 riskOut, limiter, created, job, now>>

Settle(i, outcome) ==
  /\ collected.module # ""
  /\ collected.collectors[i] = Pending
  /\ collected' = [collected EXCEPT !.collectors[i] = outcome]
  /\ analysisOut' = AnalysisOn(collected.module, collected'.collectors)
  /\ UNCHANGED <<cbVars, cacheVars, engVars, signalInput, signalOut, correlationInput,
                 riskOut, limiter, created, job, now>>

\* A collector returns.
CollectorReturns(i, v) == Settle(i, v)
\* A collector throws: safeExecute returns null.
CollectorThrows(i) == Settle(i, NULL)

FactorNext ==
  \/ \E m \in AnalysedModules : StartAnalysis(m)
  \/ \E i \in Collectors : \E v \in CollectorValues : CollectorReturns(i, v)
  \/ \E i \in Collectors : CollectorThrows(i)

FactorSpec == Init /\ [][FactorNext]_vars

\* ================================================================ claims
\* The time since the last recorded failure, as the call of step ev saw it.
EvElapsed == ev.at - ToNumber(ev.pre.lastFailureTime)
\* Step ev was a call arriving at the breaker.
EvArrival == ev.kind \in {"admitted", "rejected"}
\* So far the operation failed failureThreshold times and never succeeded.
OnlyThresholdFailures == okCount = 0 /\ streak = failureThreshold
NoCallRunning == \A c \in Calls : call[c].pc = "idle"

\* C1: from a fresh breaker, the failureThreshold-th consecutive failure leaves
\* the breaker OPEN, and a call arriving after it and less than recoveryTimeout
\* after the last failure is rejected without invoking the operation (with no
\* other call running, the operation has then been invoked failureThreshold
\* times, not once more).
C1_OpenAfterThresholdFailures ==
  /\ (OnlyThresholdFailures /\ ev.kind = "failure") => breaker.state = "OPEN"
  /\ (OnlyThresholdFailures /\ EvArrival /\ EvElapsed < recoveryTimeout)
        => (ev.kind = "rejected" /\ ~ev.invoked /\ breaker = ev.pre)
  /\ (OnlyThresholdFailures /\ ev.kind = "rejected" /\ NoCallRunning)
        => opCalls = failureThreshold
C1_Witness ==
  /\ OnlyThresholdFailures /\ ev.kind = "rejected" /\ NoCallRunning
  /\ breaker.state = "OPEN" /\ opCalls = failureThreshold /\ rejected = 1

\* C2 as stated: a call arriving at an OPEN breaker is rejected, the operation
\* not invoked, while less than recoveryTimeout has elapsed since the last
\* failure; with at least recoveryTimeout elapsed it moves the breaker to
\* HALF_OPEN with successCount 0 and invokes the operation.
C2_AsStated ==
  (EvArrival /\ ev.pre.state = "OPEN") =>
     IF EvElapsed < recoveryTimeout
     THEN ev.kind = "rejected" /\ ~ev.invoked
     ELSE /\ ev.kind = "admitted" /\ ev.invoked
          /\ breaker.state = "HALF_OPEN" /\ breaker.successCount = 0
\* C2 amended: the call is rejected while at most recoveryTimeout has elapsed;
\* it moves the breaker to HALF_OPEN (successCount 0) and invokes the operation
\* once strictly more than recoveryTimeout has elapsed.
C2_RecoveryStrictlyAfterTimeout ==
  (EvArrival /\ ev.pre.state = "OPEN") =>
     IF EvElapsed <= recoveryTimeout
     THEN ev.kind = "rejected" /\ ~ev.invoked /\ breaker = ev.pre
     ELSE /\ ev.kind = "admitted" /\ ev.invoked
          /\ breaker = [ev.pre EXCEPT !.state = "HALF_OPEN", !.successCount = 0]
C2_Witness ==
  /\ ev.kind = "admitted" /\ ev.pre.state = "OPEN" /\ EvElapsed > recoveryTimeout
  /\ breaker.state = "HALF_OPEN" /\ rejected > 0

\* C3: a call admitted while the breaker was HALF_OPEN, or failing while it is
\* HALF_OPEN, leaves the breaker OPEN when its operation fails.
C3_HalfOpenFailureReopens ==
  (ev.kind = "failure" /\ (ev.admittedIn = "HALF_OPEN" \/ ev.pre.state = "HALF_OPEN"))
     => breaker.state = "OPEN"

\* C4: a success in HALF_OPEN adds one to successCount; the breaker becomes
\* CLOSED with failureCount 0 exactly when successCount reaches
\* halfOpenSuccessThreshold, and otherwise stays HALF_OPEN, failureCount kept.
C4_HalfOpenSuccessCounting ==
  (ev.kind = "success" /\ ev.pre.state = "HALF_OPEN") =>
     /\ breaker.successCount = ev.pre.successCount + 1
     /\ breaker.lastFailureTime = ev.pre.lastFailureTime
     /\ IF breaker.successCount = halfOpenSuccessThreshold
        THEN breaker.state = "CLOSED" /\ breaker.failureCount = 0
        ELSE /\ breaker.successCount < halfOpenSuccessThreshold
             /\ breaker.state = "HALF_OPEN"
             /\ breaker.failureCount = ev.pre.failureCount
C4_Witness ==
  /\ ev.kind = "success" /\ ev.pre.state = "HALF_OPEN"
  /\ ev.pre.successCount = halfOpenSuccessThreshold - 1
  /\ breaker.state = "CLOSED" /\ breaker.failureCount = 0

\* C5: no call returns the result of its operation while the breaker is OPEN.
C5_NoLiveResultWhileOpen == ev.kind = "success" => breaker.state # "OPEN"

\* ------------------------------------------------------------ cache claims
\* What a step of the cache did, read off the two states of the step.
IssuedHit == hits' = hits + 1
IssuedMiss == misses' = misses + 1
IssuedCoalesced == \E c \in Getters : getter[c].pc = "idle" /\ getter'[c].pc = "waiter"
GetIssued == IssuedHit \/ IssuedMiss \/ IssuedCoalesced
\* computeFn is invoked in the step.
Invoked == \E p \in Promises : promise'[p].calls > promise[p].calls
\* An entry of key k whose expiry is still in the future.
LiveEntry(k) == memoryCache[k] # NoValue /\ ttlMap[k] # NULL /\ now < ttlMap[k]
ExpiredEntry(k) == memoryCache[k] # NoValue /\ ~LiveEntry(k)
\* The computation of key k that has not settled, if any.
Unsettled(k) == {p \in Promises : promise[p].key = k /\ promise[p].st \in {"throttled", "running"}}
\* Getter c finishes its call in the step.
Finishes(c) == getter[c].pc # "idle" /\ getter'[c].pc = "idle"

\* C6: a get issued while the key has no live entry and its computation has not
\* settled joins that computation and starts none; computeFn has been invoked
\* exactly once for a computation when it settles; and every caller of it,
\* owner or coalesced, returns the value it settled with.
C6_CoalescedCallsShareOneComputation ==
  [][ /\ \A k \in Keys :
           (GetIssued /\ cev'.key = k /\ ~LiveEntry(k) /\ Unsettled(k) # {}) =>
              /\ ~Invoked
              /\ \A p \in Promises : promise'[p] = promise[p]
              /\ \E c \in Getters : /\ getter[c].pc = "idle"
                                    /\ getter'[c].pc = "waiter"
                                    /\ getter'[c].p \in Unsettled(k)
      /\ \A p \in Promises :
           (promise[p].st \in {"throttled", "running"} /\ promise'[p].st \in {"ok", "err"})
              => promise'[p].calls = 1
      /\ \A c \in Getters :
           (Finishes(c) /\ cev'.kind \in {"returned", "waiterReturned"}) =>
              /\ cev'.result # NoValue
              /\ getter[c].pc = "waiter" => /\ promise[getter[c].p].st = "ok"
                                            /\ promise[getter[c].p].calls = 1
                                            /\ cev'.result = promise[getter[c].p].val
              /\ getter[c].pc = "stored" => /\ cev'.result = memoryCache[getter[c].key]
                                            /\ cev'.result = getter[c].val
    ]_vars
\* Two coalesced calls on one fulfilled computation: one has returned its value,
\* the other is about to.
C6_Witness ==
  /\ cev.kind = "waiterReturned" /\ cev.result # NoValue /\ misses = 1 /\ hits = 0
  /\ \E c \in Getters : /\ getter[c].pc = "waiter"
                        /\ promise[getter[c].p].st = "ok"
                        /\ promise[getter[c].p].val = cev.result

\* C7: when computeFn threw, every caller awaiting the computation gets the
\* error; when the owner is done the key has no cache entry and no marker; and
\* the next get of the key is a miss that goes to computeFn through the limiter.
C7_FailureIsNotCached ==
  [][ /\ \A c \in Getters :
           (Finishes(c) /\ getter[c].pc \in {"owner", "waiter"}
                        /\ promise[getter[c].p].st = "err") =>
              /\ cev'.kind \in {"ownerThrew", "waiterThrew"}
              /\ cev'.result = NoValue
              /\ getter[c].pc = "owner" => /\ memoryCache'[getter[c].key] = NoValue
                                           /\ ttlMap'[getter[c].key] = NULL
                                           /\ requestCoalescing'[getter[c].key] = 0
      /\ \A k \in Keys :
           (lastFailed[k] /\ GetIssued /\ cev'.key = k) =>
              /\ IssuedMiss
              /\ \E p \in Promises : /\ promise[p].st = "free"
                                     /\ promise'[p].st \in {"running", "throttled"}
                                     /\ promise'[p].key = k
                                     /\ requestCoalescing'[k] = p
    ]_vars
\* The second miss of a key at the moment of its first one: the first failed.
C7_Witness ==
  /\ cev.kind = "miss" /\ misses = 2 /\ hits = 0 /\ now = 0
  /\ \E p \in Promises : promise[p].st = "running" /\ requestCoalescing[cev.key] = p

Owners(k) == {c \in Getters : getter[c].pc \in {"owner", "stored"} /\ getter[c].key = k}
\* C8: a key is in the coalescing map exactly while a get call owns a
\* computation of it, there is one such call at most and the marker is its
\* promise; the marker is removed only by that owner, when it finishes, after the
\* computation settled.
C8_MarkerOnlyWhileInFlight ==
  /\ [](\A k \in Keys :
          /\ Cardinality(Owners(k)) <= 1
          /\ Cardinality(Unsettled(k)) <= 1
          /\ requestCoalescing[k] # 0 <=> Owners(k) # {}
          /\ \A c \in Owners(k) : /\ requestCoalescing[k] = getter[c].p
                                  /\ getter[c].pc = "owner" => promise[getter[c].p].key = k
                                  /\ getter[c].pc = "owner" => promise[getter[c].p].st # "free"
          /\ Unsettled(k) \subseteq {requestCoalescing[k]})
  /\ [][\A k \in Keys :
          (requestCoalescing[k] # 0 /\ requestCoalescing'[k] # requestCoalescing[k]) =>
             /\ requestCoalescing'[k] = 0
             /\ \E c \in Owners(k) : /\ Finishes(c)
                                     /\ getter[c].p = requestCoalescing[k]
                                     /\ Unsettled(k) = {}
     ]_vars
\* The marker of a second computation of the key has been removed by its owner.
C8_Witness ==
  /\ cev.kind \in {"returned", "ownerThrew"} /\ misses = 2
  /\ requestCoalescing[cev.key] = 0

\* C9: a get returns the stored value, invoking nothing, exactly when the key has
\* an entry whose expiry is in the future; an entry whose expiry has been reached
\* is deleted by the get, which goes on as a miss; and a value is stored only by
\* the owner of a fulfilled computation, with expiry now + ttl.
C9_HitIffLiveEntry ==
  [][ \A k \in Keys :
        /\ (GetIssued /\ cev'.key = k) =>
              /\ LiveEntry(k) <=> IssuedHit
              /\ IssuedHit => /\ cev'.kind = "hit" /\ cev'.result = memoryCache[k]
                              /\ ~Invoked
                              /\ UNCHANGED <<memoryCache, ttlMap, promise, requestCoalescing>>
              /\ ExpiredEntry(k) => /\ memoryCache'[k] = NoValue /\ ttlMap'[k] = NULL
                                    /\ IssuedMiss /\ cev'.kind = "miss"
        /\ (memoryCache'[k] # memoryCache[k] /\ memoryCache'[k] # NoValue) =>
              /\ ttlMap'[k] = now + TtlOf(k) * MsPerSecond
              /\ \E c \in Getters : /\ getter[c].pc = "owner" /\ getter[c].key = k
                                    /\ promise[getter[c].p].st = "ok"
                                    /\ memoryCache'[k] = promise[getter[c].p].val
    ]_vars
\* Stored, hit, expired, missed and stored again.
C9_Witness ==
  /\ cev.kind = "stored" /\ misses = 2 /\ hits = 1 /\ now >= TtlOf(cev.key) * MsPerSecond
  /\ ttlMap[cev.key] = now + TtlOf(cev.key) * MsPerSecond
  /\ memoryCache[cev.key] = cev.result

\* ----------------------------------------------------------- engine claims
\* The result of module m carries the error and fall-back data marked fallback.
IsFallbackResult(r, m) ==
  /\ r.module = m
  /\ r.error # NoError
  /\ ~r.data.present
  /\ r.fallbackData.present /\ r.fallbackData.fallback
\* The call of module m in the current run failed: its analysis threw or the
\* breaker rejected it.
Failed == {m \in Modules : invocation[m].pc = "done" /\ invocation[m].failed}

\* C10: once the phases have started nothing is thrown out of
\* analyzeProgressive: every executeModuleSafely call that finished has a
\* fulfilled promise, the one of a failed call holding a result with the error
\* and fall-back data marked fallback: true; and the call returns a result
\* with the four phases, in which every failed module has that result, the
\* signals and the verdict.
C10_FailuresBecomeFallbackResults ==
  /\ \A m \in Modules :
       invocation[m].pc = "done" =>
          /\ invocation[m].result.settled = "fulfilled"
          /\ invocation[m].failed => IsFallbackResult(invocation[m].result, m)
  /\ run.status = "returned" =>
       /\ Len(run.results) = Len(PHASES)
       /\ \A i \in DOMAIN PHASES :
            \A m \in Range(PHASES[i].modules) \cap Failed :
               \E k \in DOMAIN run.results[i] : IsFallbackResult(run.results[i][k], m)
       /\ run.signals.present
       /\ run.verdict.present
C10_Witness ==
  /\ run.status = "returned"
  /\ \E m \in Failed : invocation[m].result.error = "Circuit breaker OPEN"
  /\ \E m \in Failed : invocation[m].result.error = "analysis failed"

\* The modules of phase i.
ModulesOf(i) == Range(PHASES[i].modules)
Entered(m) == invocation[m].pc # "none"
Settled(m) == invocation[m].pc = "done"

\* C11: while analyzeProgressive runs, the phases are gone through in the
\* order of CONFIG.PHASES (immediate, quick, deep, contextual), one at a time:
\* every module of a phase before the current one has settled and no module of
\* a later phase has been entered; the current phase only moves to the next
\* one, and the recorded results are those of the phases before it, in order.
C11_PhasesInOrder ==
  /\ [](run.status = "running" =>
          /\ run.phase \in DOMAIN PHASES
          /\ Len(run.results) = run.phase - 1
          /\ \A i \in DOMAIN PHASES :
               /\ i < run.phase => \A m \in ModulesOf(i) : Settled(m)
               /\ i > run.phase => \A m \in ModulesOf(i) : ~Entered(m)
               /\ i = run.phase => \A m \in ModulesOf(i) : Entered(m))
  /\ [][(run.status = "running" /\ run'.status = "running" /\ run'.phase # run.phase)
          => /\ run'.phase = run.phase + 1
             /\ \A m \in ModulesOf(run.phase) : Settled(m)]_vars
  /\ [][(run.status = "running" /\ run'.status = "returned")
          => (run.phase = Len(PHASES) /\ \A m \in Modules : Settled(m))]_vars
C11_Witness ==
  /\ run.status = "running" /\ run.phase = Len(PHASES)
  /\ PHASES[run.phase].name = "contextual"
  /\ invocation["social"].pc = "running"
  /\ \E m \in ModulesOf(run.phase) : invocation[m].pc = "waiting"
  /\ invocation["liquidity"].failed

\* C12: a phase's result is recorded only once every module call of the phase
\* has settled, and it then holds exactly one result for each module the phase
\* names, a success or an error result, whatever the order in which the calls
\* settled.
C12_OneResultPerModule ==
  /\ [](\A i \in DOMAIN run.results :
          /\ Len(run.results[i]) = Len(PHASES[i].modules)
          /\ \A m \in ModulesOf(i) :
               Cardinality({k \in DOMAIN run.results[i] : run.results[i][k].module = m}) = 1
          /\ \A k \in DOMAIN run.results[i] :
               LET r == run.results[i][k] IN
               /\ r.module \in ModulesOf(i)
               /\ r = invocation[r.module].result
               /\ (r.error = NoError) = r.data.present
               /\ (r.error # NoError) = r.fallbackData.present)
  /\ [][Len(run'.results) = Len(run.results) + 1
          => \A m \in ModulesOf(Len(run'.results)) : Settled(m)]_vars
C12_Witness ==
  /\ run.status = "returned"
  /\ Len(run.results[Len(PHASES)]) = Len(PHASES[Len(PHASES)].modules)
  /\ invocation["social"].failed /\ ~invocation["liquidity"].failed
  /\ now > 0

\* The value the cache holds for module m and the address of the run.
HoldsValue(m) == generateCacheKey(m, run.address) \in DOMAIN stateManager.memoryCache
HeldValue(m) == stateManager.memoryCache[generateCacheKey(m, run.address)]

\* C13: the fall-back data of a failed module call is the value the cache still
\* holds for the module and the address (marked fallback, its confidence
\* halved); it is the neutral default (score 50, no signals) only when the
\* cache holds no such value.
C13_FallbackFromCachedValue ==
  \A m \in Failed :
     LET fallbackData == invocation[m].result.fallbackData IN
     /\ fallbackData.present /\ fallbackData.fallback
     /\ IF HoldsValue(m)
        THEN /\ fallbackData.cached
             /\ fallbackData.score = HeldValue(m).score
             /\ fallbackData.signals = HeldValue(m).signals
        ELSE /\ ~fallbackData.cached
             /\ fallbackData.score = 50 /\ fallbackData.signals = <<>>

\* Every result recorded for the phases, and those handed to processSignals.
RecordedResults == Flatten(run.results, 1)
HandedToSignalEngine == AllResults(run.results)

\* C14: when the phases are over, processSignals is handed every successful
\* result and every failed result that carries fall-back data; only failed
\* results without fall-back data are left out.
C14_FallbackResultsReachSignalEngine ==
  run.status = "returned" =>
     \A k \in DOMAIN RecordedResults :
        LET r == RecordedResults[k] IN
        (r.error = NoError \/ r.fallbackData.present)
           <=> (\E j \in DOMAIN HandedToSignalEngine : HandedToSignalEngine[j] = r)

Rejected == {m \in Failed : invocation[m].result.error = "Circuit breaker OPEN"}
Thrown == {m \in Failed : invocation[m].result.error = "analysis failed"}
PhaseOf(m) == CHOOSE i \in DOMAIN PHASES : m \in ModulesOf(i)

\* C15: a call rejected by an OPEN breaker is handled like a call whose
\* analysis threw: its promise is fulfilled with a result that has the error
\* set, no data, and the fall-back data a thrown error gets; the phase still
\* completes with that result in it, and every other module of the phase has
\* its own result there, those that did not fail with the data of their
\* analysis.
C15_RejectionHandledAsFailure ==
  \A m \in Rejected :
     LET r == invocation[m].result
         i == PhaseOf(m) IN
     /\ r.settled = "fulfilled"
     /\ r.error # NoError /\ ~r.data.present
     /\ r.fallbackData = getFallbackData(stateManager.memoryCache, m, run.address)
     /\ \A x \in Thrown : r.fallbackData = invocation[x].result.fallbackData
     /\ i \in DOMAIN run.results =>
          /\ \E k \in DOMAIN run.results[i] : run.results[i][k] = r
          /\ \A x \in ModulesOf(i) \ {m} :
               \E k \in DOMAIN run.results[i] :
                  /\ run.results[i][k].module = x
                  /\ x \notin Failed => run.results[i][k].data = executeAnalysis(x)
C15_Witness ==
  /\ run.status = "returned"
  /\ "social" \in Rejected
  /\ "liquidity" \in Thrown
  /\ \E k \in DOMAIN run.results[PhaseOf("social")] :
        run.results[PhaseOf("social")][k].module = "social"

\* The immediate phase is over and its quick verdict recorded.
QuickVerdictGiven == Len(run.results) >= 1
ImmediateData(m) == invocation[m].result.data

\* C16: the quick verdict is one of three messages, by the first rule that
\* matches: HIGH RISK if the security score is below 40 or the liquidity score
\* below 30; else OPPORTUNITY if both scores are above 80; else MIXED SIGNALS,
\* also when an immediate module failed.
C16_QuickVerdictOneOfThree ==
  QuickVerdictGiven =>
     /\ run.quickVerdict \in {QuickHighRisk, QuickOpportunity, QuickMixed}
     /\ (ImmediateData("security").present /\ ImmediateData("liquidity").present) =>
          run.quickVerdict =
            IF \/ ImmediateData("security").score < SECURITY_CRITICAL
               \/ ImmediateData("liquidity").score < LIQUIDITY_CRITICAL
            THEN QuickHighRisk
            ELSE IF /\ ImmediateData("security").score > 80
                    /\ ImmediateData("liquidity").score > 80
                 THEN QuickOpportunity
                 ELSE QuickMixed

\* ------------------------------------------------- SignalEngine, claims
\* All the signals of the module results, whatever their confidence.
GivenSignals == CollectSignals(signalInput)
Given(severity) == Cardinality({i \in DOMAIN GivenSignals : GivenSignals[i].severity = severity})

\* C17: calculateRiskTier returns the first tier that matches, of: RED if
\* there is at least one CRITICAL signal; RED if there are more than two HIGH
\* signals; ORANGE if there is at least one HIGH signal or more than three
\* MEDIUM signals; YELLOW if there is at least one MEDIUM signal; else GREEN.
C17_RiskTierFirstMatch ==
  signalOut.riskTier =
    IF Given("CRITICAL") >= 1 THEN "RED"
    ELSE IF Given("HIGH") > 2 THEN "RED"
    ELSE IF Given("HIGH") >= 1 \/ Given("MEDIUM") > 3 THEN "ORANGE"
    ELSE IF Given("MEDIUM") >= 1 THEN "YELLOW"
    ELSE "GREEN"
C17_Witness ==
  /\ Given("MEDIUM") = 4
  /\ Given("HIGH") = 0 /\ Given("CRITICAL") = 0
  /\ signalOut.riskTier = "ORANGE"

TierRank(tier) ==
  CASE tier = "GREEN" -> 0 [] tier = "YELLOW" -> 1 [] tier = "ORANGE" -> 2 [] tier = "RED" -> 3

\* C18: when a CRITICAL signal of positive confidence is added to the module
\* results, the risk tier processSignals returns is RED, so at least as severe
\* (GREEN < YELLOW < ORANGE < RED) as the tier it returned before.
C18_CriticalSignalMakesRed ==
  [][\A k \in DOMAIN SignalChoices :
       (/\ SignalChoices[k].severity = "CRITICAL"
        /\ SignalChoices[k].confidence > 0
        /\ signalInput' = InsertSignal(signalInput, SignalChoices[k]))
       => /\ signalOut'.processed.riskTier = "RED"
          /\ TierRank(signalOut'.processed.riskTier) >= TierRank(signalOut.processed.riskTier)]_vars
C18_Witness ==
  /\ signalOut.processed.riskTier = "RED"
  /\ signalOut.processed.criticalCount = 1
  /\ Given("CRITICAL") = 2
  /\ Given("MEDIUM") = 2

\* The input of the next state is the input with two neighbouring module
\* results, or two neighbouring signals of one result, exchanged.
Reordered ==
  \/ \E i \in 1..(Len(signalInput) - 1) : signalInput' = Swap(signalInput, i)
  \/ \E i \in DOMAIN signalInput :
        /\ signalInput[i].data.present
        /\ \E j \in 1..(Len(signalInput[i].data.signals) - 1) :
              signalInput' = [signalInput EXCEPT ![i].data.signals = Swap(@, j)]

RECURSIVE SumOver(_, _)
SumOver(f, S) ==
  IF S = {} THEN 0
  ELSE LET i == CHOOSE x \in S : TRUE IN f[i] + SumOver(f, S \ {i})
\* w_i of C20, in 1/20000: accuracy in twentieths, severity weight in tenths,
\* min(samples / 100, 1) in hundredths.
WeightOf(signal) ==
  LET stats == moduleAccuracy(signal.module)
      severityWeight == CASE signal.severity = "CRITICAL" -> 10
                          [] signal.severity = "HIGH" -> 8
                          [] signal.severity = "MEDIUM" -> 6
                          [] signal.severity = "LOW" -> 4
  IN stats.accuracy * severityWeight * (IF stats.samples < 100 THEN stats.samples ELSE 100)

\* C20: for a non-empty list of signals calculateEnsembleConfidence is
\* (sum of confidence_i * w_i) / (sum of w_i), with w_i = moduleAccuracy *
\* severityWeight * min(moduleSamples / 100, 1); it is within [0, 1] when
\* every confidence is; it is 0 for the empty list.
C20_WeightedMeanConfidence ==
  LET n == Len(GivenSignals)
      num == SumOver([i \in 1..n |-> GivenSignals[i].confidence * WeightOf(GivenSignals[i])], 1..n)
      den == SumOver([i \in 1..n |-> WeightOf(GivenSignals[i])], 1..n)
      result == signalOut.confidence
      scale == (100 * den) \div result.den
  IN /\ n > 0 => /\ den > 0
                  /\ scale * result.den = 100 * den
                  /\ scale * result.num = num
     /\ (\A i \in 1..n : GivenSignals[i].confidence \in 0..100) =>
           0 <= result.num /\ result.num <= result.den
     /\ n = 0 => result.num = 0
C20_Witness ==
  /\ Len(GivenSignals) = 3
  /\ {GivenSignals[i].module : i \in 1..3} = {"security", "education"}
  /\ {GivenSignals[i].severity : i \in 1..3} = {"CRITICAL", "LOW", "MEDIUM"}
  /\ {GivenSignals[i].confidence : i \in 1..3} = {0, 100}
  /\ signalOut.confidence.num > 0
  /\ signalOut.confidence.num < signalOut.confidence.den

\* ------------------------------------------------------ engine, liveness
\* C24: every module invocation analyzeProgressive starts eventually settles,
\* also when the analysis it awaits never completes, and so every
\* analyzeProgressive call eventually returns.
C24_EveryCallReturns ==
  /\ \A m \in RemoteModules :
        (invocation[m].pc \in {"running", "waiting"}) ~> (invocation[m].pc = "done")
  /\ (run.status = "running") ~> (run.status = "returned")

\* ------------------------------------------ SignalEngine, correlations
Retained == signalOut.processed.signals
Producing == {Retained[i].module : i \in DOMAIN Retained}
Produced(m) == {i \in DOMAIN Retained : Retained[i].module = m}
ConfidenceSum(m) == SumOver([i \in DOMAIN Retained |-> Retained[i].confidence], Produced(m))
\* The mean confidences of modules a and b differ by less than 0.05.
MeansWithin5Percent(a, b) ==
  LET d == ConfidenceSum(a) * Cardinality(Produced(b)) - ConfidenceSum(b) * Cardinality(Produced(a))
  IN (IF d < 0 THEN 0 - d ELSE d) < 5 * Cardinality(Produced(a)) * Cardinality(Produced(b))
EntriesFor(a, b) ==
  {k \in DOMAIN signalOut.processed.correlations :
     Range(signalOut.processed.correlations[k].modules) = {a, b}}

\* C21: when two distinct modules both produced signals and their mean
\* confidences differ by less than 0.05, processSignals records exactly one
\* correlation for the pair, tagged HIGH_CORRELATION or
\* COORDINATED_MANIPULATION, and the manipulationRisk is above NONE.
C21_CorrelatedPairRaisesRisk ==
  \A a \in Producing : \A b \in Producing \ {a} :
     MeansWithin5Percent(a, b) =>
        /\ Cardinality(EntriesFor(a, b)) = 1
        /\ \A k \in EntriesFor(a, b) :
              signalOut.processed.correlations[k].suspiciousPattern
                 \in {"HIGH_CORRELATION", "COORDINATED_MANIPULATION"}
        /\ signalOut.processed.manipulationRisk # "NONE"

Coordinated ==
  Cardinality({k \in DOMAIN correlationInput :
                 correlationInput[k].suspiciousPattern = "COORDINATED_MANIPULATION"})

\* C22: manipulationRisk is HIGH if more than two of the recorded correlations
\* are tagged COORDINATED_MANIPULATION, MEDIUM if one or two are, LOW if none
\* is and more than five pairs are recorded, NONE otherwise.
C22_ManipulationRiskLevels ==
  riskOut = IF Coordinated > 2 THEN "HIGH"
            ELSE IF Coordinated \in {1, 2} THEN "MEDIUM"
            ELSE IF Coordinated = 0 /\ Len(correlationInput) > 5 THEN "LOW"
            ELSE "NONE"
C22_Witness ==
  /\ Len(correlationInput) = 6
  /\ Coordinated = 0
  /\ riskOut = "LOW"

\* ------------------------------------------------ module scores, claims
AnalysisDone == collected.module # "" /\ AllSettled(collected.collectors)
Thrown3 == {i \in Collectors : collected.collectors[i] = NULL}
\* The factor a collector's value stands for: its score, or 100 * (1 -
\* riskScore) for the rug pull risk of the security module.
FactorOf(i) ==
  IF collected.module = "security" /\ i = 3 THEN 100 - collected.collectors[i]
  ELSE collected.collectors[i]
DeclaredWeight(i) == <<4, 3, 3>>[i]
\* Twice the weighted sum of the factors in S, and their weight.
WeightedTotal(value(_), S) == SumOver([i \in Collectors |-> value(i) * DeclaredWeight(i)], S)
WeightTotal(S) == SumOver([i \in Collectors |-> DeclaredWeight(i)], S)
\* x is the weighted mean over S rounded to the nearest whole number.
IsRoundedMean(x, value(_), S) ==
  /\ 2 * x * WeightTotal(S) <= 2 * WeightedTotal(value, S) + WeightTotal(S)
  /\ 2 * x * WeightTotal(S) > 2 * WeightedTotal(value, S) - WeightTotal(S)

\* C23: when a collector of a module throws, executeAnalysis does not throw
\* and its score is the weighted mean (rounded) of the factors that were
\* computed: the failed factor adds neither a value nor its weight.  (Stated
\* for computed scores other than 0.)
C23_FailedFactorLeftOut ==
  (/\ AnalysisDone /\ Thrown3 # {} /\ Thrown3 # Collectors
   /\ \A i \in Collectors : collected.collectors[i] # 0) =>
     /\ analysisOut.data.present
     /\ IsRoundedMean(analysisOut.data.score, FactorOf, Collectors \ Thrown3)

RawValue(i) == collected.collectors[i]
\* C29 as stated: calculateModuleScore returns the weighted mean of the
\* factors that are neither null nor undefined, 50 when there is none.
C29_AsStated ==
  AnalysisDone =>
     IF Thrown3 = Collectors THEN analysisOut.score = 50
     ELSE analysisOut.score * WeightTotal(Collectors \ Thrown3)
            = WeightedTotal(RawValue, Collectors \ Thrown3)

\* C29: calculateModuleScore returns the weighted mean, rounded to the nearest
\* whole number, of exactly the factors whose value is neither null nor
\* undefined (a factor of value 0 is one of them), under the declared weights;
\* it returns 50 when there is no such factor.
C29_RoundedMeanOfAvailableFactors ==
  AnalysisDone =>
     IF Thrown3 = Collectors THEN analysisOut.score = 50
     ELSE IsRoundedMean(analysisOut.score, RawValue, Collectors \ Thrown3)
C29_Witness ==
  /\ AnalysisDone
  /\ collected.collectors = <<0, NULL, 90>>
  /\ analysisOut.score = 39

\* ------------------------------------------- processSignals, more claims
\* C27: when no module result contains a signal, processSignals returns the
\* risk tier GREEN, confidence 0, signalCount 0, criticalCount 0, no
\* correlations and manipulationRisk NONE.
C27_NoSignalsAllGreen ==
  (/\ run.status = "returned"
   /\ \A k \in DOMAIN HandedToSignalEngine : HandedToSignalEngine[k].data.signals = <<>>) =>
     /\ run.signals.riskTier = "GREEN"
     /\ run.signals.confidence.num = 0
     /\ run.signals.signalCount = 0
     /\ run.signals.criticalCount = 0
     /\ run.signals.correlations = <<>>
     /\ run.signals.manipulationRisk = "NONE"
C27_Witness ==
  /\ run.status = "returned"
  /\ Len(HandedToSignalEngine) >= 3
  /\ \A k \in DOMAIN HandedToSignalEngine :
        /\ HandedToSignalEngine[k].data.present
        /\ HandedToSignalEngine[k].data.signals = <<>>
  /\ run.signals.riskTier = "GREEN"

Positive == {i \in DOMAIN GivenSignals : GivenSignals[i].confidence > 0}

\* C28: criticalCount is the number of CRITICAL signals of positive
\* confidence, signalCount the number of signals retained, and the risk tier
\* is RED whenever criticalCount is at least 1.
C28_CountsAndCriticalTier ==
  /\ signalOut.processed.criticalCount
       = Cardinality({i \in Positive : GivenSignals[i].severity = "CRITICAL"})
  /\ signalOut.processed.signalCount = Cardinality(Positive)
  /\ signalOut.processed.signalCount = Len(signalOut.processed.signals)
  /\ signalOut.processed.criticalCount >= 1 => signalOut.processed.riskTier = "RED"
C28_Witness ==
  /\ Len(GivenSignals) = 1
  /\ GivenSignals[1].severity = "CRITICAL"
  /\ signalOut.processed.criticalCount = 1
  /\ signalOut.processed.riskTier = "RED"

\* C30: every signal of the bundle processSignals returns has a confidence
\* above 0, and a signal of confidence 0 changes nothing in the bundle: it
\* reaches neither the risk tier, nor the confidence, the correlations or the
\* counts.
C30_OnlyPositiveConfidence ==
  /\ [](\A i \in DOMAIN signalOut.processed.signals :
          signalOut.processed.signals[i].confidence > 0)
  /\ [][\A k \in DOMAIN SignalChoices :
          (/\ SignalChoices[k].confidence <= 0
           /\ signalInput' = InsertSignal(signalInput, SignalChoices[k]))
          => signalOut'.processed = signalOut.processed]_vars
C30_Witness ==
  /\ signalOut.processed.signalCount = 2
  /\ Len(GivenSignals) = 4
  /\ signalOut.processed.riskTier = "YELLOW"

\* ------------------------------------------------- RateLimiter, claims
RECURSIVE TwoToThe(_)
TwoToThe(n) == IF n = 0 THEN 1 ELSE 2 * TwoToThe(n - 1)
\* Milliseconds, in the unit the delays are held in.
Ms(x) == x * BackoffScale
StoredOrBase(d) == IF d = NULL THEN Ms(1000) ELSE d

\* C25: the stored back-off delay is always between the base delay, 1000 ms,
\* and the maximum, 30000 ms; the n-th consecutive throttled attempt waits
\* min(1000 * 2^(n-1), 30000) ms; a throttle doubles the stored delay, up to
\* the maximum; a successful operation brings the delay back to the base.
C25_BackoffDoublesFromBase ==
  /\ limiter.backoffDelay # NULL =>
        Ms(1000) <= limiter.backoffDelay /\ limiter.backoffDelay <= Ms(30000)
  /\ limiter.last.kind = "throttled" =>
        /\ limiter.last.waited
             = (IF limiter.last.n > 5 THEN Ms(30000)
                ELSE Ms(1000 * TwoToThe(limiter.last.n - 1)))
        /\ limiter.backoffDelay
             = (IF 2 * StoredOrBase(limiter.last.pre) > Ms(30000) THEN Ms(30000)
                ELSE 2 * StoredOrBase(limiter.last.pre))
  /\ limiter.last.kind = "succeeded" => StoredOrBase(limiter.backoffDelay) = Ms(1000)

\* C25 as the code has it: the same, where the n-th consecutive throttled
\* attempt waits min(1000 * 2^(n-1), 30000) ms as long as no operation has
\* failed since the delay was last at its base (a failed operation multiplies
\* the stored delay by 1.5, up to the maximum).
C25_BackoffDoublesWhileNothingFails ==
  /\ limiter.backoffDelay # NULL =>
        Ms(1000) <= limiter.backoffDelay /\ limiter.backoffDelay <= Ms(30000)
  /\ limiter.last.kind = "throttled" =>
        /\ limiter.failures = 0 =>
             limiter.last.waited
               = (IF limiter.last.n > 5 THEN Ms(30000)
                  ELSE Ms(1000 * TwoToThe(limiter.last.n - 1)))
        /\ limiter.backoffDelay
             = (IF 2 * StoredOrBase(limiter.last.pre) > Ms(30000) THEN Ms(30000)
                ELSE 2 * StoredOrBase(limiter.last.pre))
  /\ limiter.last.kind = "succeeded" => StoredOrBase(limiter.backoffDelay) = Ms(1000)
\* The sixth throttled attempt in a row waits the maximum.
C25_Witness ==
  /\ limiter.last.kind = "throttled"
  /\ limiter.last.n = 6
  /\ limiter.failures = 0
  /\ limiter.last.waited = Ms(30000)
  /\ limiter.backoffDelay = Ms(30000)

\* C26: in no clock second are more than maxRequestsPerSecond (10) operations
\* started, however the execute calls interleave: a call that finds the count
\* of the current second at the ceiling does not start its operation.
C26_AtMostTenStartsPerSecond ==
  \A second \in DOMAIN limiter.started : limiter.started[second] <= 10
C26_Witness ==
  /\ limiter.last.kind = "throttled"
  /\ CountOf(limiter.started, now \div MsPerSecond) = 10
  /\ \E c \in LimiterCalls : limiter.call[c].st = "running"
  /\ limiter.fills = 1

\* ------------------------------------------- circuit breaker, further claims
\* C31: failureCount is never negative; a success while the breaker is CLOSED
\* lowers it by exactly one, but not below zero; a failure, in whatever state,
\* raises it by exactly one and records the time of the failure.
C31_FailureCountSteps ==
  /\ breaker.failureCount >= 0
  /\ (ev.kind = "success" /\ ev.pre.state = "CLOSED") =>
        /\ ev.pre.failureCount > 0 => breaker.failureCount = ev.pre.failureCount - 1
        /\ ev.pre.failureCount = 0 => breaker.failureCount = 0
  /\ ev.kind = "failure" =>
        /\ breaker.failureCount = ev.pre.failureCount + 1
        /\ breaker.lastFailureTime = ev.at
\* A success finds the count at zero, after a failure in each state.
C31_Witness ==
  /\ ev.kind = "success"
  /\ ev.pre.state = "CLOSED"
  /\ ev.pre.failureCount = 0
  /\ breaker.lastFailureTime # NULL
  /\ okCount >= 4

\* C33: a CLOSED breaker opens only when the last failureThreshold operations
\* all failed, with no success among them (F F F F S F F leaves it CLOSED).
C33_OpensOnConsecutiveFailuresOnly ==
  (ev.kind = "failure" /\ ev.pre.state = "CLOSED" /\ breaker.state = "OPEN")
    => streak >= failureThreshold

\* C34: a call rejected because the breaker is OPEN leaves state,
\* failureCount, successCount and lastFailureTime as they were, so that the
\* time at which the recovery timeout has elapsed stays the same.
C34_RejectionLeavesBreakerAlone ==
  ev.kind = "rejected" =>
    /\ ev.pre.state = "OPEN"
    /\ breaker = ev.pre
    /\ \A t \in {now + k * TickMs : k \in 0..MaxTicks} :
          RecoveryElapsed(breaker, t) = RecoveryElapsed(ev.pre, t)
\* A call is rejected some time after the failure that opened the breaker.
C34_Witness ==
  /\ ev.kind = "rejected"
  /\ breaker.state = "OPEN"
  /\ ev.at > breaker.lastFailureTime
  /\ rejected >= 2

\* C32: every signal createSignal returns has a confidence within [0,1],
\* whatever confidence the module supplied: 0 for a value below 0, 1 for a
\* value above 1.
C32_ConfidenceClamped ==
  \A k \in DOMAIN created :
    /\ created[k].signal.confidence >= 0
    /\ created[k].signal.confidence <= 100
    /\ created[k].supplied < 0 => created[k].signal.confidence = 0
    /\ created[k].supplied > 100 => created[k].signal.confidence = 100
\* A confidence below 0 and one above 1 were supplied.
C32_Witness ==
  /\ \E k \in DOMAIN created : created[k].supplied < 0
  /\ \E k \in DOMAIN created : created[k].supplied > 100

\* C35: whatever the input of processSignals, no recorded correlation is
\* tagged COORDINATED_MANIPULATION (every recorded pair has the coefficient
\* 0.9, which is not above 0.9), and manipulationRisk is NONE or LOW, never
\* MEDIUM or HIGH.
C35_NeverCoordinated ==
  /\ \A k \in DOMAIN signalOut.processed.correlations :
        /\ signalOut.processed.correlations[k].correlation = 9
        /\ signalOut.processed.correlations[k].suspiciousPattern = "HIGH_CORRELATION"
  /\ signalOut.processed.manipulationRisk \in {"NONE", "LOW"}
\* Six pairs of modules are recorded, and the risk is LOW.
C35_Witness ==
  /\ Len(signalOut.processed.correlations) > 5
  /\ signalOut.processed.manipulationRisk = "LOW"

\* ------------------------------------------------ the engine, further claims
NoneFailed == \A m \in Modules : ~invocation[m].failed
\* C36: in a single analyzeProgressive run on a fresh engine in which no module
\* computation fails, no module computation is throttled: the count of no
\* second reaches the ceiling, none of the computations waits in the rate
\* limiter, and no back-off delay is stored.
C36_FirstRunNeverThrottled ==
  (run.count = 1 /\ NoneFailed) =>
     /\ \A m \in Modules : invocation[m].pc # "waiting"
     /\ stateManager.backoffDelay = NULL
     /\ \A second \in DOMAIN stateManager.requestCounts :
           stateManager.requestCounts[second] < maxRequestsPerSecond

Invoked15 == {m \in Modules : invocation[m].pc # "none"}
\* C37: when analyzeProgressive has returned, the flattened entries of `phases`
\* are the results of the module invocations performed, one for each module
\* invoked and nothing else, and modulesExecuted is the number of modules
\* invoked.
C37_PhasesHoldModuleResultsOnly ==
  run.status = "returned" =>
     LET entries == FlattenedPhases(run) IN
     /\ \A k \in DOMAIN entries :
           /\ "module" \in DOMAIN entries[k]
           /\ entries[k].module \in Invoked15
           /\ entries[k] = invocation[entries[k].module].result
     /\ \A m \in Invoked15 :
           Cardinality({k \in DOMAIN entries :
                          "module" \in DOMAIN entries[k] /\ entries[k].module = m}) = 1
     /\ modulesExecuted(run) = Cardinality(Invoked15)

\* C38: for every analysis analyzeProgressive returns, transformToThreatFormat
\* succeeds and reports the riskTier of analysis.signals.
C38_ThreatFormatKeepsRiskTier ==
  run.status = "returned" =>
     /\ ~transformToThreatFormat(run).threw
     /\ transformToThreatFormat(run).riskTier = run.signals.riskTier

\* C39: whatever the interleaving of the handleModuleCompletion events of a
\* job, finalizeAnalysis is executed at most once, and only when the results of
\* all core modules are in the job record.
C39_FinalizedAtMostOnce ==
  /\ job.finalized <= 1
  /\ job.finalized >= 1 => job.modules = coreModules
====
